---- MODULE Spec2Model ----
(***************************************************************************)
(* Lead-generation pipeline of Reviu.pk: BusinessCollector                 *)
(* (business_collector.py), GeminiBusinessGenerator                        *)
(* (gemini_business_generator.py), FreeBusinessCollector                   *)
(* (free_business_collector.py), EnhancedScraper (enhanced_scraper.py)     *)
(* and DataManager (data_manager.py).                                      *)
(*                                                                         *)
(* Text that the code inspects character by character (names, emails,      *)
(* websites) is a sequence of one-character strings; text that the code    *)
(* only copies or compares as a whole (phone, source tag, exception class)  *)
(* is a TLA+ string.  Python dicts are records; a missing key is a missing *)
(* field.                                                                  *)
(***************************************************************************)
EXTENDS Integers, Sequences, FiniteSets, TLC

VARIABLES
    verified_businesses,  \* self.verified_businesses: category -> city -> list of dicts
    scraped,              \* the dicts created by the scrapers of the current call
    pc,                   \* position of collect_businesses
    category, city, target_count,   \* arguments of the current call
    all_businesses,       \* list of references to dicts
    unique_businesses,    \* output list of _remove_duplicates
    enhanced_businesses,  \* output list of _enhance_business_data, built one by one
    valid_businesses,     \* the two output lists of _validate_business_emails
    invalid_businesses,
    result,               \* list returned by collect_businesses
    path,                 \* "normal" | "exception": which return statement was reached
    calls,                \* number of collect_businesses calls made so far
    use_library,          \* TRUE: email_validator imported; FALSE: the regex fallback
    fn_pc, fn_in, fn_dns, fn_out,  \* a direct call of one method on a given list
    fallback_mode,        \* GeminiBusinessGenerator: self.fallback_mode
    existing_names,       \* self.existing_names
    existing_emails,      \* self.existing_emails
    gen_pc,               \* position of generate_businesses
    gen_args,             \* its arguments category, city, target_count
    gen_unique,           \* its local list unique_businesses
    attempts,             \* its local counter
    gen_result,           \* the list it returned
    gen_calls,            \* number of generate_businesses calls made so far
    proxy_list,           \* EnhancedScraper: self.proxy_list
    current_proxy_index,  \* self.current_proxy_index
    since_last_request,   \* time.time() - self.last_request_time, at most min_delay
    req_pc,               \* position of one _make_request(url) call
    retries,              \* its argument retries at the current level
    http_attempts,        \* self.session.get calls it has made
    outcomes,             \* what each of them did
    proxies_used,         \* the proxy each of them went through
    rate_slept,           \* whether _rate_limit slept before each of them
    req_result,           \* what the call returned
    dir_source,           \* scrape_business_directory: its argument source_name
    dir_result,           \* the list it returned
    futures,              \* scrape_multiple_sources: source_name -> state of its future
    completed,            \* the sources in the order as_completed yielded them
    all_scraped,          \* its local list all_businesses
    scrape_pc,            \* its position
    max_businesses,       \* its argument
    scrape_result,        \* the list it returned
    session_files,        \* DataManager: rows of the three current-session CSV files
    history_files,        \* rows of the three history CSV files
    campaign_records,     \* the list 'campaigns' of campaign_records.json
    dm_return,            \* what the last save_* call returned
    saved_log,            \* per record type, the lists handed to successful saves
    lead_history,         \* rows of lead_history.csv as the generator loads them
    returned_log,         \* every record generate_businesses has returned so far
    fetcher,              \* the class of the instance whose fetches are paced
    now,                  \* time.time(), in whole seconds
    last_request_time,    \* self.last_request_time of that instance
    w_pc,                 \* per thread, its position in _rate_limit / _make_request
    w_local,              \* per thread, its local variables
    request_times,        \* the values written to self.last_request_time, in order
    proxy_handed          \* the index and address of every proxy _get_next_proxy picked

vars == <<verified_businesses, scraped, pc, category, city, target_count,
          all_businesses, unique_businesses, enhanced_businesses,
          valid_businesses, invalid_businesses, result, path,
          calls, use_library, fn_pc, fn_in, fn_dns, fn_out,
          fallback_mode, existing_names, existing_emails, gen_pc, gen_args,
          gen_unique, attempts, gen_result, gen_calls,
          proxy_list, current_proxy_index, since_last_request, req_pc, retries,
          http_attempts, outcomes, proxies_used, rate_slept, req_result,
          dir_source, dir_result,
          futures, completed, all_scraped, scrape_pc, max_businesses, scrape_result,
          session_files, history_files, campaign_records, dm_return, saved_log,
          lead_history, returned_log,
          fetcher, now, last_request_time, w_pc, w_local, request_times,
          proxy_handed>>

collector_vars == <<verified_businesses, scraped, pc, category, city, target_count,
                    all_businesses, unique_businesses, enhanced_businesses,
                    valid_businesses, invalid_businesses, result, path, calls>>

fn_vars == <<fn_pc, fn_in, fn_dns, fn_out>>

gen_vars == <<fallback_mode, existing_names, existing_emails, gen_pc, gen_args,
              gen_unique, attempts, gen_result, gen_calls>>

req_vars == <<proxy_list, current_proxy_index, since_last_request, req_pc, retries,
              http_attempts, outcomes, proxies_used, rate_slept, req_result,
              dir_source, dir_result>>

scrape_vars == <<futures, completed, all_scraped, scrape_pc, max_businesses,
                 scrape_result>>

dm_vars == <<session_files, history_files, campaign_records, dm_return, saved_log>>

hist_vars == <<lead_history, returned_log>>

pace_vars == <<fetcher, now, last_request_time, w_pc, w_local, request_times,
               proxy_handed>>

----------------------------------------------------------------------------
(* Bounds of the model *)

MaxTarget == 3      \* largest target_count passed to collect_businesses
MaxCalls == 1       \* collect_businesses calls per behaviour
MaxLen == 3         \* longest list handed directly to a method
MaxGenTarget == 2   \* largest target_count passed to generate_businesses
MaxGenCalls == 1    \* generate_businesses calls per behaviour

----------------------------------------------------------------------------
(* Python str methods *)

UpperCase == <<"A","B","C","D","E","F","G","H","I","J","K","L","M",
               "N","O","P","Q","R","S","T","U","V","W","X","Y","Z">>
LowerCase == <<"a","b","c","d","e","f","g","h","i","j","k","l","m",
               "n","o","p","q","r","s","t","u","v","w","x","y","z">>
Digit == {"0","1","2","3","4","5","6","7","8","9"}
Letter == {UpperCase[i] : i \in 1..26} \cup {LowerCase[i] : i \in 1..26}
Whitespace == {" ", "\t", "\n"}

\* str.lower() on one character
ToLower == [c \in {UpperCase[i] : i \in 1..26} |->
               LowerCase[CHOOSE i \in 1..26 : UpperCase[i] = c]]

LowerChar(c) == IF c \in DOMAIN ToLower THEN ToLower[c] ELSE c

\* str.lower()
Lower(s) == [i \in 1..Len(s) |-> LowerChar(s[i])]

\* str.strip()
RECURSIVE LStrip(_)
LStrip(s) == IF s # <<>> /\ Head(s) \in Whitespace THEN LStrip(Tail(s)) ELSE s

RECURSIVE RStrip(_)
RStrip(s) ==
    IF s # <<>> /\ s[Len(s)] \in Whitespace THEN RStrip(SubSeq(s, 1, Len(s) - 1)) ELSE s

Strip(s) == RStrip(LStrip(s))

\* s.startswith('http')
StartsWithHttp(s) == Len(s) >= 4 /\ SubSeq(s, 1, 4) = <<"h","t","t","p">>

\* dict.get(key, default) for the keys the code reads with .get
Get(d, key, default) == IF key \in DOMAIN d THEN d[key] ELSE default

\* mutant: the slice is left out
TakeAll(list, n) == list

\* list[:n] for n >= 0
Take(list, n) == SubSeq(list, 1, IF n < Len(list) THEN n ELSE Len(list))

Range(f) == {f[i] : i \in DOMAIN f}

----------------------------------------------------------------------------
(* BusinessCollector._remove_duplicates *)

\* the key of a business in seen_names / seen_emails
NameKey(business) == Strip(Lower(Get(business, "name", <<>>)))
EmailKey(business) == Strip(Lower(Get(business, "email", <<>>)))

\* mutant: a business is kept when only one of its keys is new
IsUniqueEitherKey(business, seen_names, seen_emails) ==
    NameKey(business) \notin seen_names \/ EmailKey(business) \notin seen_emails

\* the condition under which the loop keeps a business
IsUnique(business, seen_names, seen_emails) ==
    NameKey(business) \notin seen_names /\ EmailKey(business) \notin seen_emails

RECURSIVE DedupLoop(_, _, _, _, _)
\* the for loop: i is the next index, kept the indices appended so far
DedupLoop(businesses, i, seen_names, seen_emails, kept) ==
    IF i > Len(businesses) THEN kept
    ELSE IF IsUnique(businesses[i], seen_names, seen_emails)
         THEN DedupLoop(businesses, i + 1,
                        seen_names \cup {NameKey(businesses[i])},
                        seen_emails \cup {EmailKey(businesses[i])},
                        Append(kept, i))
         ELSE DedupLoop(businesses, i + 1, seen_names, seen_emails, kept)

\* mutant: the loop starts at the second business
UniqueIndicesFromSecond(businesses) == DedupLoop(businesses, 2, {}, {}, <<>>)

\* indices of the businesses that _remove_duplicates keeps, in order
UniqueIndices(businesses) == DedupLoop(businesses, 1, {}, {}, <<>>)

_remove_duplicates(businesses) ==
    LET kept == UniqueIndices(businesses)
    IN  [k \in 1..Len(kept) |-> businesses[kept[k]]]

----------------------------------------------------------------------------
(* The Verified Dataset: BusinessCollector._load_verified_businesses.      *)
(* The model carries the lists of two (category, city) keys of the         *)
(* database, copied from the source; the calls of the model use these      *)
(* keys and keys that the database does not have.                          *)

Technology == <<"T","e","c","h","n","o","l","o","g","y">>
HealthcareMedical ==
    <<"H","e","a","l","t","h","c","a","r","e"," ","&"," ","M","e","d","i","c","a","l">>
Healthcare == <<"H","e","a","l","t","h","c","a","r","e">>
Karachi == <<"K","a","r","a","c","h","i">>
Lahore == <<"L","a","h","o","r","e">>
Quetta == <<"Q","u","e","t","t","a">>

_load_verified_businesses ==
    (Technology :> (Karachi :> <<
        [name |-> <<"A","r","p","a","t","e","c","h">>,
         email |-> <<"c","o","n","t","a","c","t","@","a","r","p","a","t","e","c","h",".","c","o","m">>,
         phone |-> "+92-21-34567890", address |-> <<"D","e","f","e","n","c","e",","," ","K","a","r","a","c","h","i">>,
         website |-> <<"h","t","t","p","s",":","/","/","a","r","p","a","t","e","c","h",".","c","o","m">>,
         business_type |-> <<"S","o","f","t","w","a","r","e"," ","C","o","m","p","a","n","y">>, verified |-> TRUE,
         source |-> "verified_database"],
        [name |-> <<"1","0","P","e","a","r","l","s">>,
         email |-> <<"h","e","l","l","o","@","1","0","p","e","a","r","l","s",".","c","o","m">>,
         phone |-> "+92-21-34567891", address |-> <<"G","u","l","s","h","a","n","-","e","-","I","q","b","a","l",","," ","K","a","r","a","c","h","i">>,
         website |-> <<"h","t","t","p","s",":","/","/","1","0","p","e","a","r","l","s",".","c","o","m">>,
         business_type |-> <<"I","T"," ","C","o","m","p","a","n","y">>, verified |-> TRUE,
         source |-> "verified_database"],
        [name |-> <<"T","e","c","h","l","o","g","i","x">>,
         email |-> <<"i","n","f","o","@","t","e","c","h","l","o","g","i","x",".","c","o","m">>,
         phone |-> "+92-21-34567892", address |-> <<"N","o","r","t","h"," ","N","a","z","i","m","a","b","a","d",","," ","K","a","r","a","c","h","i">>,
         website |-> <<"h","t","t","p","s",":","/","/","t","e","c","h","l","o","g","i","x",".","c","o","m">>,
         business_type |-> <<"S","o","f","t","w","a","r","e"," ","H","o","u","s","e">>, verified |-> TRUE,
         source |-> "verified_database"] >>))
    @@
    (HealthcareMedical :> (Lahore :> <<
        [name |-> <<"S","h","a","u","k","a","t"," ","K","h","a","n","u","m"," ","H","o","s","p","i","t","a","l">>,
         email |-> <<"i","n","f","o","@","s","h","a","u","k","a","t","k","h","a","n","u","m",".","o","r","g",".","p","k">>,
         phone |-> "+92-42-34567894", address |-> <<"J","o","h","a","r"," ","T","o","w","n",","," ","L","a","h","o","r","e">>,
         website |-> <<"h","t","t","p","s",":","/","/","s","h","a","u","k","a","t","k","h","a","n","u","m",".","o","r","g",".","p","k">>,
         business_type |-> <<"H","o","s","p","i","t","a","l">>, verified |-> TRUE,
         source |-> "verified_database"] >>))

\* category in self.verified_businesses and city in self.verified_businesses[category]
HasKey(vb, cat, c) == cat \in DOMAIN vb /\ c \in DOMAIN vb[cat]

\* the (category, city) arguments of the calls of the model
CallKeys == {<<Technology, Karachi>>, <<HealthcareMedical, Lahore>>,
             <<Technology, Quetta>>, <<Healthcare, Lahore>>}

----------------------------------------------------------------------------
(* References: a Python list holds references to dicts.  A reference names *)
(* either a dict of the Verified Dataset or a dict a scraper created in    *)
(* the current call.                                                       *)

DatasetRef(cat, c, i) == [ds |-> TRUE, cat |-> cat, city |-> c, i |-> i]
ScrapedRef(i) == [ds |-> FALSE, i |-> i]

\* the dict a reference points to, in the heap (vb, sc)
Obj(vb, sc, ref) == IF ref.ds THEN vb[ref.cat][ref.city][ref.i] ELSE sc[ref.i]

Deref(ref) == Obj(verified_businesses, scraped, ref)

DerefAll(refs) == [k \in 1..Len(refs) |-> Deref(refs[k])]

\* dict.update / item assignment: the fields of upd replace or extend those of d
DictUpdate(d, upd) ==
    [k \in DOMAIN d \cup DOMAIN upd |-> IF k \in DOMAIN upd THEN upd[k] ELSE d[k]]

\* the dataset after the dicts of key (cat, c) were updated by upd(_)
SetSource(vb, cat, c, tag) ==
    [vb EXCEPT ![cat][c] = [i \in 1..Len(@) |-> [@[i] EXCEPT !.source = tag]]]

----------------------------------------------------------------------------
(* BusinessCollector._get_city_info, _generate_domain, _generate_email_from_name *)

_get_city_info(c) ==
    IF c = Karachi THEN [area_code |-> "21", region |-> "Sindh"]
    ELSE IF c = Lahore THEN [area_code |-> "42", region |-> "Punjab"]
    ELSE IF c = Quetta THEN [area_code |-> "81", region |-> "Balochistan"]
    ELSE [area_code |-> "00", region |-> "Unknown"]

\* s with every character of the set chars removed: chained str.replace(c, '')
Without(s, chars) == SelectSeq(s, LAMBDA ch : ch \notin chars)

\* domains[index % len(domains)] for index = 0, the only index the scrapers use
_generate_domain(cat, c) ==
    Without(Lower(cat), {" ", "&"}) \o Lower(c) \o <<".","c","o","m">>

\* str.isalnum() on one character
IsAlnum(ch) == ch \in Letter \cup Digit

_generate_email_from_name(business_name) ==
    LET clean_name == SelectSeq(Without(Lower(business_name), {" ", "&", "-"}), IsAlnum)
    IN  IF Len(clean_name) > 3
        THEN clean_name \o <<".","c","o","m">>
        ELSE <<"i","n","f","o","@">> \o clean_name \o
             <<"b","u","s","i","n","e","s","s",".","c","o","m">>

----------------------------------------------------------------------------
(* validate_email and BusinessCollector._validate_business_emails *)

LocalChars == Letter \cup Digit \cup {".", "_", "%", "+", "-"}
DomainChars == Letter \cup Digit \cup {".", "-"}

AllIn(s, chars) == \A i \in 1..Len(s) : s[i] \in chars

\* the pattern between ^ and $: [a-zA-Z0-9._%+-]+@[a-zA-Z0-9.-]+\.[a-zA-Z]{2,}
MatchesBody(s) ==
    \E a \in 1..Len(s) : \E d \in (a + 1)..Len(s) :
        /\ s[a] = "@" /\ s[d] = "."
        /\ a > 1 /\ AllIn(SubSeq(s, 1, a - 1), LocalChars)
        /\ d > a + 1 /\ AllIn(SubSeq(s, a + 1, d - 1), DomainChars)
        /\ Len(s) - d >= 2 /\ AllIn(SubSeq(s, d + 1, Len(s)), Letter)

\* re.match(pattern, email): $ also matches before one trailing newline
MatchesPattern(s) ==
    \/ MatchesBody(s)
    \/ Len(s) > 0 /\ s[Len(s)] = "\n" /\ MatchesBody(SubSeq(s, 1, Len(s) - 1))

\* The exception validate_email(email) raises, "none" when it returns.
\* With the email_validator package the syntax check is the package's; it is
\* represented by the same grammar and raises EmailNotValidError.  The
\* fallback defined after the ImportError raises ValueError.
validate_email(email, library) ==
    IF MatchesPattern(email) THEN "none"
    ELSE IF library THEN "EmailNotValidError" ELSE "ValueError"

\* exception classes and the classes they derive from
Bases(cls) ==
    IF cls = "EmailNotValidError" THEN {"EmailNotValidError", "ValueError", "Exception"}
    ELSE IF cls = "ValueError" THEN {"ValueError", "Exception"}
    ELSE {cls, "Exception"}

\* an except clause for class handler catches an exception of class exc
Catches(handler, exc) == handler \in Bases(exc)

DnsOutcomes == {"found", "no_answer", "error"}

\* the list a business of the loop is appended to: "valid" or "invalid"
Classify(business, dns, library) ==
    LET email == Get(business, "email", <<>>)
        exc == validate_email(email, library)
    IN  IF email = <<>> THEN "invalid"
        ELSE IF exc = "none"
             THEN \* dns.resolver.resolve(domain, 'MX') returns, or raises into a bare except
                  IF dns = "found" THEN "valid" ELSE "valid"
        ELSE IF Catches("EmailNotValidError", exc) THEN "invalid"
        ELSE IF Catches("Exception", exc) THEN "valid"
        ELSE "raised"

\* indices of the businesses with the given class, in input order
IndicesOf(businesses, dns, library, class) ==
    LET hit == {i \in 1..Len(businesses) : Classify(businesses[i], dns[i], library) = class}
        RECURSIVE ordered(_)
        ordered(S) == IF S = {} THEN <<>>
                      ELSE LET m == CHOOSE x \in S : \A y \in S : x <= y
                           IN  <<m>> \o ordered(S \ {m})
    IN  ordered(hit)

\* the pair (valid_businesses, invalid_businesses), as index lists
_validate_business_emails(businesses, dns, library) ==
    [valid |-> IndicesOf(businesses, dns, library, "valid"),
     invalid |-> IndicesOf(businesses, dns, library, "invalid")]

\* list[k] for the indices k of idx
Pick(list, idx) == [k \in 1..Len(idx) |-> list[idx[k]]]

----------------------------------------------------------------------------
(* The scrapers.  What a fetched page contains is the environment's        *)
(* choice: a response is a failed fetch or a list of listing elements,     *)
(* drawn from a small pool.                                                *)

SeqsUpTo(S, n) == UNION {[1..k -> S] : k \in 0..n}

\* search results (div.g): title, email found in the snippet ('' if none), link
SearchResultPool ==
    {[title |-> <<"A","c","m","e">>,
      snippet_email |-> <<"i","n","f","o","@","a","c","m","e",".","p","k">>,
      link |-> <<"h","t","t","p",":","/","/","a","c","m","e",".","p","k">>],
     [title |-> <<"A","C","M","E">>, snippet_email |-> <<>>, link |-> <<>>],
     [title |-> <<"A","c","e"," ","T","e","c","h">>,
      snippet_email |-> <<"I","n","f","o","@","A","c","m","e",".","p","k">>,
      link |-> <<"h","t","t","p",":","/","/","a","c","e",".","p","k">>]}

\* map listing elements: name text and href of the first link ('' if none)
MapsElementPool ==
    {[name |-> <<"A","c","m","e">>, href |-> <<>>],
     [name |-> <<"A","C","M","E">>,
      href |-> <<"/","m","a","p","s","/","p","l","a","c","e","/","a","c","m","e">>],
     [name |-> <<"A","b">>, href |-> <<>>],
     [name |-> <<"a","c","e"," ","t","e","c","h">>,
      href |-> <<"h","t","t","p",":","/","/","a","c","m","e",".","p","k">>]}

\* f"+92-{area_code}-{random.randint(10000000, 99999999)}", one draw
GeneratedPhone(c) == "+92-" \o _get_city_info(c).area_code \o "-" \o "10000000"

CityPakistan(c) == c \o <<",", " ", "P","a","k","i","s","t","a","n">>

\* the dict built from one search result (the titles of the pool carry none
\* of the suffixes the scraper removes, and the snippets no phone number)
GoogleBusiness(r, cat, c) ==
    [name |-> r.title,
     email |-> IF r.snippet_email # <<>> THEN r.snippet_email
               ELSE _generate_email_from_name(r.title),
     phone |-> GeneratedPhone(c),
     address |-> CityPakistan(c),
     website |-> IF StartsWithHttp(r.link) THEN r.link
                 ELSE <<"h","t","t","p","s",":","/","/">> \o r.link,
     business_type |-> cat, verified |-> FALSE, source |-> "google_search"]

\* response.status = "error": the fetch or the parse raised, caught inside
_scrape_google_search(cat, c, count, response) ==
    IF response.status = "error" THEN <<>>
    ELSE LET search_results == Take(response.elements, count)
         IN  [k \in 1..Len(search_results) |-> GoogleBusiness(search_results[k], cat, c)]

\* the dict built from one map listing element
MapsBusiness(e, cat, c) ==
    [name |-> e.name,
     email |-> _generate_email_from_name(e.name),
     phone |-> GeneratedPhone(c),
     address |-> CityPakistan(c),
     website |-> IF StartsWithHttp(e.href) THEN e.href
                 ELSE IF e.href # <<>> /\ e.href[1] = "/"
                      THEN <<"h","t","t","p","s",":","/","/","w","w","w",".",
                             "g","o","o","g","l","e",".","c","o","m">> \o e.href
                 ELSE <<"h","t","t","p","s",":","/","/">> \o _generate_domain(cat, c),
     business_type |-> cat, verified |-> FALSE, source |-> "google_maps"]

RECURSIVE MapsLoop(_, _, _, _, _, _)
\* the loop over business_elements[:count]
MapsLoop(elements, i, cat, c, count, businesses) ==
    IF i > Len(elements) THEN businesses
    ELSE LET e == elements[i]
             added == IF \E k \in 1..Len(businesses) :
                             Lower(businesses[k].name) = Lower(e.name)
                      THEN businesses
                      ELSE Append(businesses, MapsBusiness(e, cat, c))
         IN  IF e.name = <<>> \/ Len(e.name) < 3
             THEN MapsLoop(elements, i + 1, cat, c, count, businesses)
             ELSE IF Len(added) >= count THEN added
             ELSE MapsLoop(elements, i + 1, cat, c, count, added)

\* response: the first URL that yields businesses, or a failure of all three
_scrape_google_maps(cat, c, count, response) ==
    IF response.status = "error" THEN <<>>
    ELSE MapsLoop(Take(response.elements, count), 1, cat, c, count, <<>>)

Responses(pool, count) ==
    {[status |-> "error", elements |-> <<>>]} \cup
    {[status |-> "ok", elements |-> es] : es \in SeqsUpTo(pool, count)}

----------------------------------------------------------------------------
(* BusinessCollector._scrape_business_website: the dict enhanced_data.     *)
(* Each website of the model serves one page; a fetch of it succeeds or    *)
(* fails.                                                                  *)

EmptyDict == <<>>

\* what the extraction finds on the page of a website
PageData(website) ==
    IF website = <<"h","t","t","p",":","/","/","a","c","m","e",".","p","k">>
    THEN [email |-> <<"s","a","l","e","s","@","a","c","m","e",".","p","k">>]
    ELSE IF website = <<"h","t","t","p","s",":","/","/","a","r","p","a","t","e","c","h",".","c","o","m">>
    THEN [email |-> <<"i","n","f","o","@","a","r","p","a","t","e","c","h",".","c","o","m">>,
          phone |-> "+92-21-1234567"]
    ELSE IF website = <<"h","t","t","p","s",":","/","/","1","0","p","e","a","r","l","s",".","c","o","m">>
    THEN [address |-> <<"S","h","a","h","r","a","h","-","e","-","F","a","i","s","a","l",","," ","K","a","r","a","c","h","i">>]
    ELSE IF website = <<"h","t","t","p","s",":","/","/","s","h","a","u","k","a","t","k","h","a","n","u","m",".","o","r","g",".","p","k">>
    THEN [email |-> <<"i","n","f","o","@","s","k","m",".","o","r","g",".","p","k">>]
    ELSE EmptyDict

_scrape_business_website(website, fetch_ok) ==
    IF fetch_ok THEN PageData(website) ELSE EmptyDict

\* the business after one iteration of the loop of _enhance_business_data
EnhancedBusiness(business, fetch_ok) ==
    LET website == Get(business, "website", <<>>)
        enhanced_data == _scrape_business_website(website, fetch_ok)
    IN  IF website # <<>> /\ StartsWithHttp(website) /\ DOMAIN enhanced_data # {}
        THEN LET updated == DictUpdate(business, enhanced_data)
             IN  [updated EXCEPT !.source = @ \o "_enhanced"]
        ELSE business

----------------------------------------------------------------------------
(* BusinessCollector._get_fallback_businesses: the returned list and the   *)
(* dataset after the loop that assigns business['source'].                 *)

FallbackTag == "verified_database_fallback"

_get_fallback_businesses(vb, cat, c, count) ==
    IF HasKey(vb, cat, c)
    THEN [businesses |-> Take([i \in 1..Len(vb[cat][c]) |-> DatasetRef(cat, c, i)], count),
          vb |-> SetSource(vb, cat, c, FallbackTag)]
    ELSE [businesses |-> <<>>, vb |-> vb]

----------------------------------------------------------------------------
(* BusinessCollector.collect_businesses, one action per statement group    *)

Min(a, b) == IF a < b THEN a ELSE b

\* min(target_count // 2, 50)
ScrapeCount == Min(target_count \div 2, 50)

\* the threshold of Method 3
Shortfall(n, target) == n < target \div 2

CollectorInit ==
    /\ verified_businesses = _load_verified_businesses
    /\ scraped = <<>>
    /\ pc = "idle"
    /\ category = <<>> /\ city = <<>> /\ target_count = 0
    /\ all_businesses = <<>> /\ unique_businesses = <<>> /\ enhanced_businesses = <<>>
    /\ valid_businesses = <<>> /\ invalid_businesses = <<>>
    /\ result = <<>> /\ path = "none"
    /\ calls = 0

\* EnhancedScraper.__init__: the rate limiting and retry settings
min_delay == 2
max_delay == 5
max_retries == 3

\* no EnhancedScraper request made
EnhancedIdle ==
    /\ proxy_list = <<>> /\ current_proxy_index = 0
    /\ since_last_request = min_delay
    /\ req_pc = "off" /\ retries = 0 /\ http_attempts = 0
    /\ outcomes = <<>> /\ proxies_used = <<>> /\ rate_slept = <<>>
    /\ req_result = "none_yet"
    /\ dir_source = "" /\ dir_result = <<>>

\* no scrape_multiple_sources call made
ScrapeIdle ==
    /\ futures = <<>> /\ completed = <<>> /\ all_scraped = <<>>
    /\ scrape_pc = "off" /\ max_businesses = 0 /\ scrape_result = <<>>

\* no DataManager built and no lead history read
DataIdle ==
    /\ session_files = <<>> /\ history_files = <<>> /\ campaign_records = <<>>
    /\ dm_return = "none_yet" /\ saved_log = <<>>
    /\ lead_history = <<>> /\ returned_log = <<>>

\* no thread inside _rate_limit or _make_request is followed
PaceIdle ==
    /\ fetcher = "" /\ now = 0 /\ last_request_time = 0
    /\ w_pc = <<>> /\ w_local = <<>>
    /\ request_times = <<>> /\ proxy_handed = <<>>

GenIdle ==
    /\ fallback_mode = TRUE
    /\ existing_names = {} /\ existing_emails = {}
    /\ gen_pc = "off"
    /\ gen_args = [category |-> <<>>, city |-> <<>>, target_count |-> 0]
    /\ gen_unique = <<>> /\ attempts = 0
    /\ gen_result = <<>> /\ gen_calls = 0

Init ==
    /\ CollectorInit
    /\ PaceIdle
    /\ GenIdle
    /\ EnhancedIdle
    /\ ScrapeIdle
    /\ DataIdle
    /\ use_library \in BOOLEAN
    /\ fn_pc = "off" /\ fn_in = <<>> /\ fn_dns = <<>> /\ fn_out = <<>>

\* the caller invokes collect_businesses(category, city, target_count)
Call ==
    /\ pc \in {"idle", "done"}
    /\ calls < MaxCalls
    /\ \E key \in CallKeys, n \in 1..MaxTarget :
          /\ category' = key[1] /\ city' = key[2] /\ target_count' = n
    /\ calls' = calls + 1
    /\ scraped' = <<>>
    /\ all_businesses' = <<>> /\ unique_businesses' = <<>> /\ enhanced_businesses' = <<>>
    /\ valid_businesses' = <<>> /\ invalid_businesses' = <<>>
    /\ result' = <<>> /\ path' = "none"
    /\ pc' = "google"
    /\ UNCHANGED <<verified_businesses, use_library, fn_vars, gen_vars, req_vars, scrape_vars, dm_vars, hist_vars, pace_vars>>

\* references to the dicts sc[from+1 .. from+n]
NewRefs(from, n) == [k \in 1..n |-> ScrapedRef(from + k)]

\* Method 1: google_businesses = self._scrape_google_search(...)
ScrapeGoogle ==
    /\ pc = "google"
    /\ \E response \in Responses(SearchResultPool, ScrapeCount) :
          LET google_businesses ==
                  _scrape_google_search(category, city, ScrapeCount, response)
          IN  /\ scraped' = scraped \o google_businesses
              /\ all_businesses' =
                     all_businesses \o NewRefs(Len(scraped), Len(google_businesses))
    /\ pc' = "maps"
    /\ UNCHANGED <<verified_businesses, category, city, target_count, unique_businesses,
                   enhanced_businesses, valid_businesses, invalid_businesses, result,
                   path, calls, use_library, fn_vars, gen_vars, req_vars, scrape_vars, dm_vars, hist_vars, pace_vars>>

\* Method 2: maps_businesses = self._scrape_google_maps(...)
ScrapeMaps ==
    /\ pc = "maps"
    /\ \E response \in Responses(MapsElementPool, ScrapeCount) :
          LET maps_businesses ==
                  _scrape_google_maps(category, city, ScrapeCount, response)
          IN  /\ scraped' = scraped \o maps_businesses
              /\ all_businesses' =
                     all_businesses \o NewRefs(Len(scraped), Len(maps_businesses))
    /\ pc' = "fallback"
    /\ UNCHANGED <<verified_businesses, category, city, target_count, unique_businesses,
                   enhanced_businesses, valid_businesses, invalid_businesses, result,
                   path, calls, use_library, fn_vars, gen_vars, req_vars, scrape_vars, dm_vars, hist_vars, pace_vars>>

\* Method 3: the verified database when scraping did not yield enough
VerifiedFallback ==
    /\ pc = "fallback"
    /\ IF Shortfall(Len(all_businesses), target_count)
          /\ HasKey(verified_businesses, category, city)
       THEN /\ verified_businesses' =
                   SetSource(verified_businesses, category, city, "verified_database")
            /\ all_businesses' = all_businesses \o
                   [i \in 1..Len(verified_businesses[category][city]) |->
                        DatasetRef(category, city, i)]
       ELSE UNCHANGED <<verified_businesses, all_businesses>>
    /\ pc' = "dedup"
    /\ UNCHANGED <<scraped, category, city, target_count, unique_businesses,
                   enhanced_businesses, valid_businesses, invalid_businesses, result,
                   path, calls, use_library, fn_vars, gen_vars, req_vars, scrape_vars, dm_vars, hist_vars, pace_vars>>

\* unique_businesses = self._remove_duplicates(all_businesses)
RemoveDuplicates ==
    /\ pc = "dedup"
    /\ unique_businesses' = Pick(all_businesses, UniqueIndices(DerefAll(all_businesses)))
    /\ pc' = "enhance"
    /\ UNCHANGED <<verified_businesses, scraped, category, city, target_count,
                   all_businesses, enhanced_businesses, valid_businesses,
                   invalid_businesses, result, path, calls, use_library, fn_vars, gen_vars, req_vars, scrape_vars, dm_vars, hist_vars, pace_vars>>

\* one iteration of the loop of _enhance_business_data: the dict is updated
\* in place, wherever it lives, and its reference is appended
EnhanceOne ==
    /\ pc = "enhance"
    /\ Len(enhanced_businesses) < Len(unique_businesses)
    /\ LET ref == unique_businesses[Len(enhanced_businesses) + 1]
       IN  /\ \E fetch_ok \in BOOLEAN :
                 LET business == EnhancedBusiness(Deref(ref), fetch_ok)
                 IN  IF ref.ds
                     THEN /\ verified_businesses' =
                                 [verified_businesses EXCEPT
                                      ![ref.cat][ref.city][ref.i] = business]
                          /\ UNCHANGED scraped
                     ELSE /\ scraped' = [scraped EXCEPT ![ref.i] = business]
                          /\ UNCHANGED verified_businesses
           /\ enhanced_businesses' = Append(enhanced_businesses, ref)
    /\ UNCHANGED <<pc, category, city, target_count, all_businesses, unique_businesses,
                   valid_businesses, invalid_businesses, result, path, calls,
                   use_library, fn_vars, gen_vars, req_vars, scrape_vars, dm_vars, hist_vars, pace_vars>>

\* _enhance_business_data returns; _validate_business_emails starts
EnhanceReturn ==
    /\ pc = "enhance"
    /\ Len(enhanced_businesses) = Len(unique_businesses)
    /\ pc' = "validate"
    /\ UNCHANGED <<verified_businesses, scraped, category, city, target_count,
                   all_businesses, unique_businesses, enhanced_businesses,
                   valid_businesses, invalid_businesses, result, path, calls,
                   use_library, fn_vars, gen_vars, req_vars, scrape_vars, dm_vars, hist_vars, pace_vars>>

\* the iteration with valid_businesses.append(business) after the inner try
\* statement as well as inside it
ValidateOneAppendingAfterLookup ==
    /\ pc = "validate"
    /\ Len(valid_businesses) + Len(invalid_businesses) < Len(enhanced_businesses)
    /\ LET ref == enhanced_businesses[Len(valid_businesses) + Len(invalid_businesses) + 1]
       IN  \E dns \in DnsOutcomes :
              IF Classify(Deref(ref), dns, use_library) = "valid"
              THEN /\ valid_businesses' =
                          IF dns = "found"
                          THEN Append(Append(valid_businesses, ref), ref)
                          ELSE Append(valid_businesses, ref)
                   /\ UNCHANGED invalid_businesses
              ELSE /\ invalid_businesses' = Append(invalid_businesses, ref)
                   /\ UNCHANGED valid_businesses
    /\ UNCHANGED <<verified_businesses, scraped, pc, category, city, target_count,
                   all_businesses, unique_businesses, enhanced_businesses, result,
                   path, calls, use_library, fn_vars, gen_vars, req_vars, scrape_vars, dm_vars, hist_vars, pace_vars>>

\* one iteration of the loop of _validate_business_emails
ValidateOne ==
    /\ pc = "validate"
    /\ Len(valid_businesses) + Len(invalid_businesses) < Len(enhanced_businesses)
    /\ LET ref == enhanced_businesses[Len(valid_businesses) + Len(invalid_businesses) + 1]
       IN  \E dns \in DnsOutcomes :
              IF Classify(Deref(ref), dns, use_library) = "valid"
              THEN /\ valid_businesses' = Append(valid_businesses, ref)
                   /\ UNCHANGED invalid_businesses
              ELSE /\ invalid_businesses' = Append(invalid_businesses, ref)
                   /\ UNCHANGED valid_businesses
    /\ UNCHANGED <<verified_businesses, scraped, pc, category, city, target_count,
                   all_businesses, unique_businesses, enhanced_businesses, result,
                   path, calls, use_library, fn_vars, gen_vars, req_vars, scrape_vars, dm_vars, hist_vars, pace_vars>>

\* return valid_businesses[:target_count]
Return ==
    /\ pc = "validate"
    /\ Len(valid_businesses) + Len(invalid_businesses) = Len(enhanced_businesses)
    /\ result' = Take(valid_businesses, target_count)
    /\ path' = "normal"
    /\ pc' = "done"
    /\ UNCHANGED <<verified_businesses, scraped, category, city, target_count,
                   all_businesses, unique_businesses, enhanced_businesses,
                   valid_businesses, invalid_businesses, calls, use_library, fn_vars, gen_vars, req_vars, scrape_vars, dm_vars, hist_vars, pace_vars>>

\* the class named by the except clause of collect_businesses
HandlerNarrow == "ValueError"

HandlerClass == "Exception"

\* classes of the exceptions a statement of the try block may raise
RaisedClasses == {"ValueError", "MemoryError"}

\* A statement of the try block raises (a scraper replaced by a failing one,
\* an allocation failure, ...).  except Exception:
\*     return self._get_fallback_businesses(category, city, target_count)
\* An exception the clause does not catch leaves the call.
RaiseAndFallback ==
    /\ pc \in {"google", "maps", "fallback", "dedup", "enhance", "validate"}
    /\ \E exc \in RaisedClasses :
          IF Catches(HandlerClass, exc)
          THEN LET fb == _get_fallback_businesses(verified_businesses, category, city,
                                                  target_count)
               IN  /\ result' = fb.businesses
                   /\ verified_businesses' = fb.vb
                   /\ path' = "exception"
          ELSE /\ result' = <<>>
               /\ path' = "propagated"
               /\ UNCHANGED verified_businesses
    /\ pc' = "done"
    /\ UNCHANGED <<scraped, category, city, target_count, all_businesses,
                   unique_businesses, enhanced_businesses, valid_businesses,
                   invalid_businesses, calls, use_library, fn_vars, gen_vars, req_vars, scrape_vars, dm_vars, hist_vars, pace_vars>>

Next ==
    \/ Call
    \/ ScrapeGoogle
    \/ ScrapeMaps
    \/ VerifiedFallback
    \/ RemoveDuplicates
    \/ EnhanceOne
    \/ EnhanceReturn
    \/ ValidateOne
    \/ Return
    \/ RaiseAndFallback

Spec == Init /\ [][Next]_vars


----------------------------------------------------------------------------
(* Direct calls of _remove_duplicates and _validate_business_emails on     *)
(* every list over a pool of dicts, up to MaxLen elements.                 *)

\* dicts for _remove_duplicates: names and emails that differ in case or in
\* surrounding blanks, an empty email and a missing 'email' key
DedupPool ==
    LET names == {<<"A","c","m","e">>, <<" ","a","c","m","e"," ">>, <<"Z","e","d">>}
        emails == {<<"i","n","f","o","@","a","c","m","e",".","p","k">>,
                   <<" ","I","n","f","o","@","A","c","m","e",".","p","k">>,
                   <<>>}
    IN  {[name |-> n, email |-> e] : n \in names, e \in emails}
        \cup {[name |-> n] : n \in names}

\* dicts for _validate_business_emails
EmailPool ==
    {[email |-> <<"i","n","f","o","@","e","x","a","m","p","l","e",".","c","o","m">>],
     [email |-> <<"n","o","t","-","a","n","-","e","m","a","i","l">>],
     [email |-> <<"a","@","b",".","c">>],
     [email |-> <<>>]}

InitDedup ==
    /\ CollectorInit
    /\ PaceIdle
    /\ GenIdle
    /\ EnhancedIdle
    /\ ScrapeIdle
    /\ DataIdle
    /\ use_library = TRUE
    /\ fn_pc = "dedup_ready"
    /\ fn_in \in SeqsUpTo(DedupPool, MaxLen)
    /\ fn_dns = <<>>
    /\ fn_out = <<>>

\* unique = collector._remove_duplicates(fn_in)
DedupCall ==
    /\ fn_pc = "dedup_ready"
    /\ fn_out' = _remove_duplicates(fn_in)
    /\ fn_pc' = "dedup_returned"
    /\ UNCHANGED <<collector_vars, use_library, fn_in, fn_dns, gen_vars, req_vars, scrape_vars, dm_vars, hist_vars, pace_vars>>

\* the caller hands the returned list back: collector._remove_duplicates(unique)
DedupAgain ==
    /\ fn_pc = "dedup_returned"
    /\ fn_in' = fn_out
    /\ fn_out' = _remove_duplicates(fn_out)
    /\ fn_pc' = "dedup_again"
    /\ UNCHANGED <<collector_vars, use_library, fn_dns, gen_vars, req_vars, scrape_vars, dm_vars, hist_vars, pace_vars>>

NextDedup == DedupCall \/ DedupAgain

SpecDedup == InitDedup /\ [][NextDedup]_vars

InitValidate ==
    /\ CollectorInit
    /\ PaceIdle
    /\ GenIdle
    /\ EnhancedIdle
    /\ ScrapeIdle
    /\ DataIdle
    /\ use_library \in BOOLEAN
    /\ fn_pc = "validate_ready"
    /\ fn_in \in SeqsUpTo(EmailPool, MaxLen)
    /\ fn_dns \in [1..Len(fn_in) -> DnsOutcomes]
    /\ fn_out = <<>>

\* valid, invalid = collector._validate_business_emails(fn_in), with the
\* answers fn_dns of the MX lookups
ValidateCall ==
    /\ fn_pc = "validate_ready"
    /\ fn_out' = _validate_business_emails(fn_in, fn_dns, use_library)
    /\ fn_pc' = "validate_returned"
    /\ UNCHANGED <<collector_vars, use_library, fn_in, fn_dns, gen_vars, req_vars, scrape_vars, dm_vars, hist_vars, pace_vars>>

NextValidate == ValidateCall

SpecValidate == InitValidate /\ [][NextValidate]_vars

----------------------------------------------------------------------------
(* GeminiBusinessGenerator (gemini_business_generator.py).                 *)
(* A BusinessData object is a record; phone, address, description,         *)
(* founded_year and services are text that no method reads and are left    *)
(* out of the record.                                                      *)

S_info == <<"i","n","f","o","@">>
S_com == <<".","c","o","m">>
S_www == <<"w","w","w",".">>
UnknownEmail == <<"i","n","f","o","@","u","n","k","n","o","w","n",".","c","o","m">>
UnknownBusiness == <<"U","n","k","n","o","w","n"," ","B","u","s","i","n","e","s","s">>
UnknownWebsite == <<"w","w","w",".","u","n","k","n","o","w","n",".","c","o","m">>
Education == <<"E","d","u","c","a","t","i","o","n">>

\* rows of data/lead_history.csv when the generator is constructed: no file,
\* or one lead that an earlier run recorded
HistoryPool ==
    {<<>>,
     <<[name |-> <<" ","T","e","c","h","V","i","s","i","o","n"," ",
                   "S","o","l","u","t","i","o","n","s">>,
        email |-> <<"I","n","f","o","@","T","e","c","h","V","i","s","i","o","n",
                    "S","o","l","u","t","i","o","n","s",".","c","o","m">>]>>}

\* a lead history whose one lead has the name of a built-in fallback record
\* in a longer form
LongerNameHistory ==
    <<[name |-> <<"D","i","g","i","t","a","l"," ","D","y","n","a","m","i","c","s",
                  " ","P","v","t"," ","L","t","d">>,
       email |-> <<"c","e","o","@","d","i","g","i","t","a","l","d","y","n",".","p","k">>]>>

\* the two sets after _load_existing_leads has read the rows
_load_existing_leads(rows) ==
    [names |-> {Strip(Lower(rows[i].name)) :
                    i \in {k \in 1..Len(rows) : Get(rows[k], "name", <<>>) # <<>>}},
     emails |-> {Strip(Lower(rows[i].email)) :
                    i \in {k \in 1..Len(rows) : Get(rows[k], "email", <<>>) # <<>>}}]

\* s.replace(old, ' ') for a one-character old
ReplaceBySpace(s, old) == [i \in 1..Len(s) |-> IF s[i] = old THEN " " ELSE s[i]]

RECURSIVE SplitLoop(_, _, _, _)
SplitLoop(s, i, word, words) ==
    IF i > Len(s)
    THEN IF word = <<>> THEN words ELSE words \cup {word}
    ELSE IF s[i] \in Whitespace
         THEN SplitLoop(s, i + 1, <<>>, IF word = <<>> THEN words ELSE words \cup {word})
         ELSE SplitLoop(s, i + 1, Append(word, s[i]), words)

\* set(s.split())
SplitSet(s) == SplitLoop(s, 1, <<>>, {})

common_words ==
    {<<"p","v","t">>, <<"l","t","d">>, <<"l","i","m","i","t","e","d">>,
     <<"c","o","m","p","a","n","y">>, <<"c","o">>, <<"c","o","r","p">>,
     <<"c","o","r","p","o","r","a","t","i","o","n">>,
     <<"s","o","l","u","t","i","o","n","s">>, <<"s","e","r","v","i","c","e","s">>,
     <<"g","r","o","u","p">>, <<"s","y","s","t","e","m","s">>}

\* NameWords without the removal of common_words
NameWordsKeepingCommon(name) ==
    SplitSet(ReplaceBySpace(ReplaceBySpace(name, "-"), "."))

NameWords(name) ==
    SplitSet(ReplaceBySpace(ReplaceBySpace(name, "-"), ".")) \ common_words

\* len(intersection) / len(union) > 0.7, in tenths
_names_are_similar(name1, name2) ==
    LET words1 == NameWords(name1)
        words2 == NameWords(name2)
    IN  IF words1 # {} /\ words2 # {}
        THEN Cardinality(words1 \cap words2) * 10 > 7 * Cardinality(words1 \cup words2)
        ELSE FALSE

\* _is_duplicate without the checks of the name
IsDuplicateByEmailOnly(business, names, emails) ==
    Strip(Lower(business.email)) \in emails

_is_duplicate(business, names, emails) ==
    LET business_name == Strip(Lower(business.name))
        business_email == Strip(Lower(business.email))
    IN  \/ business_name \in names
        \/ business_email \in emails
        \/ \E existing_name \in names : _names_are_similar(business_name, existing_name)
TechnologyNames ==
    << <<"T","e","c","h","V","i","s","i","o","n"," ","S","o","l","u","t","i","o","n","s">>,
       <<"D","i","g","i","t","a","l"," ","D","y","n","a","m","i","c","s">>,
       <<"I","n","n","o","v","a","t","e","T","e","c","h"," ","S","y","s","t","e","m","s">>,
       <<"S","m","a","r","t","C","o","d","e"," ","S","o","l","u","t","i","o","n","s">>,
       <<"F","u","t","u","r","e","T","e","c","h"," ","H","u","b">>,
       <<"C","y","b","e","r","T","e","c","h"," ","S","e","r","v","i","c","e","s">>,
       <<"D","a","t","a","F","l","o","w"," ","T","e","c","h","n","o","l","o","g","i","e","s">>,
       <<"C","l","o","u","d","T","e","c","h"," ","S","o","l","u","t","i","o","n","s">>,
       <<"M","o","b","i","l","e","T","e","c","h"," ","I","n","n","o","v","a","t","i","o","n","s">>,
       <<"W","e","b","T","e","c","h"," ","P","r","o">>,
       <<"T","e","c","h","G","e","n","i","u","s"," ","L","a","b","s">>,
       <<"D","i","g","i","t","a","l"," ","F","o","r","g","e">>,
       <<"I","n","n","o","v","a","t","e"," ","S","o","l","u","t","i","o","n","s">>,
       <<"S","m","a","r","t"," ","S","y","s","t","e","m","s">>,
       <<"F","u","t","u","r","e"," ","D","y","n","a","m","i","c","s">>,
       <<"C","y","b","e","r"," ","D","y","n","a","m","i","c","s">>,
       <<"D","a","t","a"," ","S","o","l","u","t","i","o","n","s">>,
       <<"C","l","o","u","d"," ","S","y","s","t","e","m","s">>,
       <<"M","o","b","i","l","e"," ","S","o","l","u","t","i","o","n","s">>,
       <<"W","e","b"," ","D","y","n","a","m","i","c","s">>,
       <<"T","e","c","h"," ","M","a","s","t","e","r","s">>,
       <<"D","i","g","i","t","a","l"," ","S","o","l","u","t","i","o","n","s">>,
       <<"I","n","n","o","v","a","t","e"," ","L","a","b","s">>,
       <<"S","m","a","r","t"," ","T","e","c","h">>,
       <<"F","u","t","u","r","e"," ","S","o","l","u","t","i","o","n","s">>,
       <<"C","y","b","e","r"," ","L","a","b","s">>,
       <<"D","a","t","a"," ","T","e","c","h">>,
       <<"C","l","o","u","d"," ","L","a","b","s">>,
       <<"M","o","b","i","l","e"," ","T","e","c","h">>,
       <<"W","e","b"," ","S","o","l","u","t","i","o","n","s">>,
       <<"T","e","c","h"," ","D","y","n","a","m","i","c","s">> >>

HealthcareNames ==
    << <<"M","e","d","C","a","r","e"," ","P","l","u","s">>,
       <<"H","e","a","l","t","h","F","i","r","s","t"," ","C","l","i","n","i","c">>,
       <<"W","e","l","l","n","e","s","s"," ","S","o","l","u","t","i","o","n","s">>,
       <<"C","a","r","e","T","e","c","h"," ","M","e","d","i","c","a","l">>,
       <<"H","e","a","l","t","h","H","u","b"," ","S","e","r","v","i","c","e","s">>,
       <<"M","e","d","T","e","c","h"," ","I","n","n","o","v","a","t","i","o","n","s">>,
       <<"P","a","t","i","e","n","t","C","a","r","e"," ","S","o","l","u","t","i","o","n","s">>,
       <<"H","e","a","l","t","h","T","e","c","h"," ","S","y","s","t","e","m","s">>,
       <<"C","a","r","e","F","i","r","s","t"," ","M","e","d","i","c","a","l">>,
       <<"W","e","l","l","T","e","c","h"," ","S","e","r","v","i","c","e","s">>,
       <<"M","e","d","C","a","r","e"," ","S","o","l","u","t","i","o","n","s">>,
       <<"H","e","a","l","t","h","F","i","r","s","t"," ","P","l","u","s">>,
       <<"W","e","l","l","n","e","s","s"," ","T","e","c","h">>,
       <<"C","a","r","e","T","e","c","h"," ","S","o","l","u","t","i","o","n","s">>,
       <<"H","e","a","l","t","h","H","u","b"," ","P","l","u","s">>,
       <<"M","e","d","T","e","c","h"," ","S","o","l","u","t","i","o","n","s">>,
       <<"P","a","t","i","e","n","t","C","a","r","e"," ","P","l","u","s">>,
       <<"H","e","a","l","t","h","T","e","c","h"," ","P","l","u","s">>,
       <<"C","a","r","e","F","i","r","s","t"," ","S","o","l","u","t","i","o","n","s">>,
       <<"W","e","l","l","T","e","c","h"," ","P","l","u","s">>,
       <<"M","e","d","C","a","r","e"," ","T","e","c","h">>,
       <<"H","e","a","l","t","h","F","i","r","s","t"," ","S","o","l","u","t","i","o","n","s">>,
       <<"W","e","l","l","n","e","s","s"," ","P","l","u","s">>,
       <<"C","a","r","e","T","e","c","h"," ","P","l","u","s">>,
       <<"H","e","a","l","t","h","H","u","b"," ","T","e","c","h">>,
       <<"M","e","d","T","e","c","h"," ","P","l","u","s">>,
       <<"P","a","t","i","e","n","t","C","a","r","e"," ","T","e","c","h">>,
       <<"H","e","a","l","t","h","T","e","c","h"," ","S","o","l","u","t","i","o","n","s">>,
       <<"C","a","r","e","F","i","r","s","t"," ","T","e","c","h">>,
       <<"W","e","l","l","T","e","c","h"," ","S","o","l","u","t","i","o","n","s">> >>

EducationNames ==
    << <<"E","d","u","T","e","c","h"," ","S","o","l","u","t","i","o","n","s">>,
       <<"L","e","a","r","n","i","n","g"," ","H","u","b">>,
       <<"K","n","o","w","l","e","d","g","e"," ","C","e","n","t","e","r">>,
       <<"S","m","a","r","t"," ","E","d","u","c","a","t","i","o","n">>,
       <<"E","d","u","V","i","s","i","o","n"," ","P","r","o">>,
       <<"L","e","a","r","n","i","n","g"," ","T","e","c","h","n","o","l","o","g","i","e","s">>,
       <<"K","n","o","w","l","e","d","g","e"," ","H","u","b">>,
       <<"E","d","u","T","e","c","h"," ","I","n","n","o","v","a","t","i","o","n","s">>,
       <<"S","m","a","r","t"," ","L","e","a","r","n","i","n","g">>,
       <<"E","d","u","c","a","t","i","o","n"," ","P","l","u","s">>,
       <<"E","d","u","T","e","c","h"," ","P","l","u","s">>,
       <<"L","e","a","r","n","i","n","g"," ","S","o","l","u","t","i","o","n","s">>,
       <<"K","n","o","w","l","e","d","g","e"," ","P","l","u","s">>,
       <<"S","m","a","r","t"," ","T","e","c","h">>,
       <<"E","d","u","V","i","s","i","o","n"," ","S","o","l","u","t","i","o","n","s">>,
       <<"L","e","a","r","n","i","n","g"," ","P","l","u","s">>,
       <<"K","n","o","w","l","e","d","g","e"," ","T","e","c","h">>,
       <<"E","d","u","T","e","c","h"," ","H","u","b">>,
       <<"S","m","a","r","t"," ","S","o","l","u","t","i","o","n","s">>,
       <<"E","d","u","c","a","t","i","o","n"," ","T","e","c","h">>,
       <<"E","d","u","T","e","c","h"," ","C","e","n","t","e","r">>,
       <<"L","e","a","r","n","i","n","g"," ","T","e","c","h">>,
       <<"K","n","o","w","l","e","d","g","e"," ","S","o","l","u","t","i","o","n","s">>,
       <<"S","m","a","r","t"," ","P","l","u","s">>,
       <<"E","d","u","V","i","s","i","o","n"," ","T","e","c","h">> >>

GenericNames(cat) ==
    << cat \o <<" ","S","o","l","u","t","i","o","n","s"," ","P","v","t"," ","L","t","d">>,
       <<"E","l","i","t","e"," ">> \o cat \o <<" ","S","e","r","v","i","c","e","s">>,
       <<"P","r","i","m","e"," ">> \o cat \o <<" ","H","u","b">>,
       <<"N","e","x","t"," ","G","e","n"," ">> \o cat,
       <<"S","m","a","r","t"," ">> \o cat \o <<" ","C","o">>,
       <<"A","d","v","a","n","c","e","d"," ">> \o cat \o <<" ","S","y","s","t","e","m","s">>,
       <<"P","r","o","f","e","s","s","i","o","n","a","l"," ">> \o cat \o <<" ","G","r","o","u","p">>,
       <<"M","o","d","e","r","n"," ">> \o cat \o <<" ","S","o","l","u","t","i","o","n","s">>,
       <<"E","x","p","e","r","t"," ">> \o cat \o <<" ","S","e","r","v","i","c","e","s">>,
       <<"P","r","e","m","i","u","m"," ">> \o cat \o <<" ","C","o">>,
       cat \o <<" ","D","y","n","a","m","i","c","s">>,
       <<"E","l","i","t","e"," ">> \o cat \o <<" ","S","o","l","u","t","i","o","n","s">>,
       <<"P","r","i","m","e"," ">> \o cat \o <<" ","S","e","r","v","i","c","e","s">>,
       <<"N","e","x","t"," ","G","e","n"," ">> \o cat \o <<" ","S","o","l","u","t","i","o","n","s">>,
       <<"S","m","a","r","t"," ">> \o cat \o <<" ","S","e","r","v","i","c","e","s">>,
       <<"A","d","v","a","n","c","e","d"," ">> \o cat \o <<" ","S","o","l","u","t","i","o","n","s">>,
       <<"P","r","o","f","e","s","s","i","o","n","a","l"," ">> \o cat \o <<" ","S","o","l","u","t","i","o","n","s">>,
       <<"M","o","d","e","r","n"," ">> \o cat \o <<" ","S","e","r","v","i","c","e","s">>,
       <<"E","x","p","e","r","t"," ">> \o cat \o <<" ","S","o","l","u","t","i","o","n","s">>,
       <<"P","r","e","m","i","u","m"," ">> \o cat \o <<" ","S","e","r","v","i","c","e","s">>,
       cat \o <<" ","T","e","c","h">>,
       <<"E","l","i","t","e"," ">> \o cat \o <<" ","T","e","c","h">>,
       <<"P","r","i","m","e"," ">> \o cat \o <<" ","T","e","c","h">>,
       <<"N","e","x","t"," ","G","e","n"," ">> \o cat \o <<" ","T","e","c","h">>,
       <<"S","m","a","r","t"," ">> \o cat \o <<" ","T","e","c","h">>,
       <<"A","d","v","a","n","c","e","d"," ">> \o cat \o <<" ","T","e","c","h">>,
       <<"P","r","o","f","e","s","s","i","o","n","a","l"," ">> \o cat \o <<" ","T","e","c","h">>,
       <<"M","o","d","e","r","n"," ">> \o cat \o <<" ","T","e","c","h">>,
       <<"E","x","p","e","r","t"," ">> \o cat \o <<" ","T","e","c","h">>,
       <<"P","r","e","m","i","u","m"," ">> \o cat \o <<" ","T","e","c","h">> >>

\* the if/elif chain on category.lower()
fallback_names(cat) ==
    IF Lower(cat) = Lower(Technology) THEN TechnologyNames
    ELSE IF Lower(cat) = Lower(Healthcare) THEN HealthcareNames
    ELSE IF Lower(cat) = Lower(Education) THEN EducationNames
    ELSE GenericNames(cat)

\* name.lower() with ' ', '.', '-' and '&' removed
CompanyName(name) == Without(Lower(name), {" ", ".", "-", "&"})

\* the BusinessData built in the loop body when unique_businesses has n elements
FallbackBusiness(name, company_name, email, cat, c, n) ==
    [name |-> name,
     email |-> email,
     website |-> S_www \o company_name \o S_com,
     business_type |-> cat, category |-> cat, city |-> c,
     verified |-> n < 5,
     source |-> "realistic_fallback_data",
     employees |-> IF n < 5 THEN "10-50" ELSE "5-20"]

\* the for loop of _get_fallback_businesses_with_duplicate_prevention from
\* index i (1-based) on; names/emails are self.existing_names/_emails
RECURSIVE FallbackLoop(_, _, _, _, _, _, _, _, _)
FallbackLoop(list, i, cat, c, count, unique, used, names, emails) ==
    IF i > Len(list) \/ Len(unique) >= count
    THEN [businesses |-> unique, names |-> names, emails |-> emails]
    ELSE LET name == list[i]
             company_name == CompanyName(name)
             email == S_info \o company_name \o S_com
             name_key == Lower(name)
             email_key == Lower(email)
         IN  IF \/ name_key \in used.names \/ email_key \in used.emails
                \/ name_key \in names \/ email_key \in emails
             THEN FallbackLoop(list, i + 1, cat, c, count, unique, used, names, emails)
             ELSE FallbackLoop(list, i + 1, cat, c, count,
                               Append(unique, FallbackBusiness(name, company_name, email,
                                                               cat, c, Len(unique))),
                               [names |-> used.names \cup {name_key},
                                emails |-> used.emails \cup {email_key}],
                               names \cup {name_key}, emails \cup {email_key})

\* returns the list and the new value of the two existing_* sets
_get_fallback_businesses_with_duplicate_prevention(cat, c, count, names, emails) ==
    FallbackLoop(fallback_names(cat), 1, cat, c, count, <<>>,
                 [names |-> {}, emails |-> {}], names, emails)

\* 'x' in s
Contains(s, ch) == \E i \in 1..Len(s) : s[i] = ch

\* objects of the 'businesses' array of a model response
TechSolutionsPvtLtd ==
    [name |-> <<"T","e","c","h"," ","S","o","l","u","t","i","o","n","s"," ",
                "P","v","t"," ","L","t","d">>,
     email |-> <<"i","n","f","o","@","t","e","c","h","s","o","l",".","p","k">>,
     verified |-> TRUE]
TechSolutions ==
    [name |-> <<"T","e","c","h"," ","S","o","l","u","t","i","o","n","s">>,
     email |-> <<"h","e","l","l","o","@","t","e","c","h","s","o","l",".","p","k">>]
DigitalDynamics ==
    [name |-> <<"D","i","g","i","t","a","l"," ","D","y","n","a","m","i","c","s">>,
     email |-> UnknownEmail]
Nameless ==
    [email |-> <<"c","e","o","@","a","c","m","e",".","p","k">>, verified |-> FALSE]
HealthServices ==
    [name |-> <<"H","e","a","l","t","h"," ","S","e","r","v","i","c","e","s">>,
     email |-> <<"i","n","f","o","@","h","e","a","l","t","h",".","p","k">>]

\* what self.model.generate_content(prompt) / response.text can do: raise,
\* give text without a JSON object, text whose JSON does not parse, or a
\* JSON object with a 'businesses' array
GeminiResponses ==
    {[kind |-> k, items |-> <<>>] : k \in {"raise", "no_json", "bad_json"}}
    \cup {[kind |-> "json", items |-> items] :
             items \in {<<>>,
                        <<TechSolutionsPvtLtd, TechSolutions>>,
                        <<DigitalDynamics, Nameless>>,
                        <<TechSolutions, HealthServices>>}}

\* the BusinessData built from one object of the array
ParsedBusiness(business_data, cat, c) ==
    [name |-> Get(business_data, "name", UnknownBusiness),
     email |-> business_data.email,
     website |-> Get(business_data, "website", UnknownWebsite),
     business_type |-> Get(business_data, "business_type", cat),
     category |-> Get(business_data, "category", cat),
     city |-> Get(business_data, "city", c),
     verified |-> Get(business_data, "verified", FALSE),
     source |-> Get(business_data, "source", "gemini_ai"),
     employees |-> Get(business_data, "employees", "")]

\* the objects the for loop of _parse_gemini_response does not skip
ParseKeeps(business_data) ==
    LET email == Get(business_data, "email", <<>>)
    IN  ~(email = <<>> \/ email = UnknownEmail \/ ~Contains(email, "@"))

\* no_json: the branch calls self._get_fallback_businesses, which the class
\* does not define; the AttributeError reaches `except Exception`, which,
\* like `except json.JSONDecodeError`, returns five fallback records
_parse_gemini_response(response, cat, c, names, emails) ==
    IF response.kind = "json"
    THEN [businesses |-> LET kept == SelectSeq(response.items, ParseKeeps)
                         IN  [i \in 1..Len(kept) |-> ParsedBusiness(kept[i], cat, c)],
          names |-> names, emails |-> emails]
    ELSE _get_fallback_businesses_with_duplicate_prevention(cat, c, 5, names, emails)

\* the `for business in businesses` loop of generate_businesses
RECURSIVE FilterLoop(_, _, _, _, _, _)
FilterLoop(businesses, i, target, unique, names, emails) ==
    IF i > Len(businesses)
    THEN [businesses |-> unique, names |-> names, emails |-> emails]
    ELSE LET business == businesses[i]
         IN  IF /\ business.email # <<>>
                /\ Contains(business.email, "@")
                /\ business.email # UnknownEmail
                /\ ~_is_duplicate(business, names, emails)
             THEN LET unique2 == Append(unique, business)
                      names2 == names \cup {Strip(Lower(business.name))}
                      emails2 == emails \cup {Strip(Lower(business.email))}
                  IN  IF Len(unique2) >= target
                      THEN [businesses |-> unique2, names |-> names2, emails |-> emails2]
                      ELSE FilterLoop(businesses, i + 1, target, unique2, names2, emails2)
             ELSE FilterLoop(businesses, i + 1, target, unique, names, emails)

\* categories passed to generate_businesses: one with a name list of its
\* own, one that gets the generic names
GenCategories == {Technology, HealthcareMedical}

InitGen ==
    /\ CollectorInit
    /\ PaceIdle
    /\ use_library = TRUE
    /\ fn_pc = "off" /\ fn_in = <<>> /\ fn_dns = <<>> /\ fn_out = <<>>
    /\ fallback_mode \in BOOLEAN
    /\ \E rows \in HistoryPool \cup {LongerNameHistory} :
          /\ existing_names = _load_existing_leads(rows).names
          /\ existing_emails = _load_existing_leads(rows).emails
    /\ gen_pc = "idle"
    /\ gen_args = [category |-> <<>>, city |-> <<>>, target_count |-> 0]
    /\ gen_unique = <<>> /\ attempts = 0
    /\ gen_result = <<>> /\ gen_calls = 0
    /\ EnhancedIdle
    /\ ScrapeIdle
    /\ DataIdle

\* generate_businesses(category, city, target_count) in fallback mode: the
\* whole call
FallbackModeCall(limit, categories, targets) ==
    /\ gen_pc \in {"idle", "done"}
    /\ gen_calls < limit
    /\ fallback_mode
    /\ \E cat \in categories, n \in targets :
          LET r == _get_fallback_businesses_with_duplicate_prevention(
                       cat, Karachi, n, existing_names, existing_emails)
          IN  /\ gen_args' = [category |-> cat, city |-> Karachi, target_count |-> n]
              /\ gen_result' = r.businesses
              /\ existing_names' = r.names
              /\ existing_emails' = r.emails
    /\ gen_unique' = <<>> /\ attempts' = 0
    /\ gen_calls' = gen_calls + 1
    /\ gen_pc' = "done"
    /\ UNCHANGED <<collector_vars, use_library, fn_vars, req_vars, scrape_vars, dm_vars, hist_vars, pace_vars, fallback_mode>>

\* generate_businesses with a model: up to the while loop
StartCall(limit, categories, targets) ==
    /\ gen_pc \in {"idle", "done"}
    /\ gen_calls < limit
    /\ ~fallback_mode
    /\ \E cat \in categories, n \in targets :
          gen_args' = [category |-> cat, city |-> Karachi, target_count |-> n]
    /\ gen_unique' = <<>> /\ attempts' = 0
    /\ gen_result' = <<>>
    /\ gen_calls' = gen_calls + 1
    /\ gen_pc' = "loop"
    /\ UNCHANGED <<collector_vars, use_library, fn_vars, req_vars, scrape_vars, dm_vars, hist_vars, pace_vars, fallback_mode,
                   existing_names, existing_emails>>

\* the while condition with max_attempts = target_count * 4
LoopConditionFourPerRecord ==
    /\ Len(gen_unique) < gen_args.target_count
    /\ attempts < gen_args.target_count * 4

LoopCondition ==
    /\ Len(gen_unique) < gen_args.target_count
    /\ attempts < gen_args.target_count * 3

\* one iteration of the while loop that ends normally
AttemptWith(responses) ==
    /\ gen_pc = "loop"
    /\ LoopCondition
    /\ \E response \in responses :
          /\ response.kind # "raise"
          /\ LET parsed == _parse_gemini_response(response, gen_args.category,
                               gen_args.city, existing_names, existing_emails)
                 r == FilterLoop(parsed.businesses, 1, gen_args.target_count,
                                 gen_unique, parsed.names, parsed.emails)
             IN  /\ gen_unique' = r.businesses
                 /\ existing_names' = r.names
                 /\ existing_emails' = r.emails
    /\ attempts' = attempts + 1
    /\ UNCHANGED <<collector_vars, use_library, fn_vars, req_vars, scrape_vars, dm_vars, hist_vars, pace_vars, fallback_mode,
                   gen_pc, gen_args, gen_result, gen_calls>>

\* an iteration in which generate_content raises: the handler returns the
\* fallback records for target_count
GenerateExcept ==
    /\ gen_pc = "loop"
    /\ LoopCondition
    /\ LET r == _get_fallback_businesses_with_duplicate_prevention(
                    gen_args.category, gen_args.city, gen_args.target_count,
                    existing_names, existing_emails)
       IN  /\ gen_result' = r.businesses
           /\ existing_names' = r.names
           /\ existing_emails' = r.emails
    /\ attempts' = attempts + 1
    /\ gen_pc' = "done"
    /\ UNCHANGED <<collector_vars, use_library, fn_vars, req_vars, scrape_vars, dm_vars, hist_vars, pace_vars, fallback_mode,
                   gen_args, gen_unique, gen_calls>>

\* the while loop has ended: return unique_businesses
GenerateReturn ==
    /\ gen_pc = "loop"
    /\ ~LoopCondition
    /\ gen_result' = gen_unique
    /\ gen_pc' = "done"
    /\ UNCHANGED <<collector_vars, use_library, fn_vars, req_vars, scrape_vars, dm_vars, hist_vars, pace_vars, fallback_mode,
                   existing_names, existing_emails, gen_args, gen_unique,
                   attempts, gen_calls>>

GenerateFallbackMode == FallbackModeCall(MaxGenCalls, GenCategories, 1..MaxGenTarget)

GenerateStart == StartCall(MaxGenCalls, GenCategories, 1..MaxGenTarget)

GenerateAttempt == AttemptWith(GeminiResponses)

NextGen ==
    \/ GenerateFallbackMode
    \/ GenerateStart
    \/ GenerateAttempt
    \/ GenerateExcept
    \/ GenerateReturn

SpecGen == InitGen /\ [][NextGen]_vars

\* an iteration of the while loop comes to its end, by the statements after
\* generate_content or by the except handler
IterationEnds ==
    /\ gen_pc = "loop"
    /\ LoopCondition
    /\ attempts' = attempts + 1

\* generate_content returns or raises, and the statements of
\* generate_businesses after it run: a call that has started goes on
SpecGenFair == SpecGen /\ WF_attempts(IterationEnds) /\ WF_vars(GenerateReturn)

----------------------------------------------------------------------------
(* Several generate_businesses calls, on one generator and on generators   *)
(* built one after the other: after each call the caller appends the       *)
(* returned records to data/lead_history.csv (DataManager.save_leads),     *)
(* and a generator built later loads that file.                            *)

\* objects of a model response that repeat a name or an email of the
\* built-in technology list, in other case and with blanks around
TechVisionAgain ==
    [name |-> <<" ","T","E","C","H","V","I","S","I","O","N"," ","S","O","L","U","T","I","O","N","S"," ">>,
     email |-> <<"h","e","l","l","o","@","t","e","c","h","v","i","s","i","o","n",".","p","k">>]
TechVisionMail ==
    [name |-> <<"V","i","s","i","o","n"," ","T","e","c","h"," ","H","u","b">>,
     email |-> <<" ","I","n","f","o","@","T","e","c","h","V","i","s","i","o","n","S","o","l","u","t","i","o","n","s",".","c","o","m">>]

ReissueResponses ==
    {[kind |-> "json", items |-> <<TechVisionAgain, TechSolutions>>],
     [kind |-> "json", items |-> <<TechVisionMail, TechSolutions>>],
     [kind |-> "json", items |-> <<TechSolutionsPvtLtd, HealthServices>>]}

\* generate_businesses calls per behaviour, over all generators
MaxReissueCalls == 3

ReissueTargets == {1, 2}

\* the rows DataManager.save_leads appends for the returned records, as
\* csv.DictReader gives them back
HistoryRows(businesses) ==
    [i \in 1..Len(businesses) |->
        [name |-> businesses[i].name, email |-> businesses[i].email]]

InitReissue ==
    /\ CollectorInit
    /\ PaceIdle
    /\ EnhancedIdle
    /\ ScrapeIdle
    /\ use_library = TRUE
    /\ fn_pc = "off" /\ fn_in = <<>> /\ fn_dns = <<>> /\ fn_out = <<>>
    /\ session_files = <<>> /\ history_files = <<>> /\ campaign_records = <<>>
    /\ dm_return = "none_yet" /\ saved_log = <<>>
    /\ lead_history \in HistoryPool
    /\ returned_log = <<>>
    /\ fallback_mode \in BOOLEAN
    /\ existing_names = _load_existing_leads(lead_history).names
    /\ existing_emails = _load_existing_leads(lead_history).emails
    /\ gen_pc = "idle"
    /\ gen_args = [category |-> <<>>, city |-> <<>>, target_count |-> 0]
    /\ gen_unique = <<>> /\ attempts = 0
    /\ gen_result = <<>> /\ gen_calls = 0

ReissueFallbackMode ==
    gen_pc = "idle" /\ FallbackModeCall(MaxReissueCalls, {Technology}, ReissueTargets)

ReissueStart ==
    gen_pc = "idle" /\ StartCall(MaxReissueCalls, {Technology}, ReissueTargets)

ReissueAttempt == AttemptWith(ReissueResponses)

\* the caller records what the call returned; the same generator serves
\* the next call
KeepInstance ==
    /\ gen_pc = "done"
    /\ lead_history' = lead_history \o HistoryRows(gen_result)
    /\ returned_log' = returned_log \o gen_result
    /\ gen_pc' = "idle"
    /\ UNCHANGED <<collector_vars, use_library, fn_vars, req_vars, scrape_vars, dm_vars,
                   pace_vars, fallback_mode, existing_names, existing_emails, gen_args,
                   gen_unique, attempts, gen_result, gen_calls>>

\* the caller records what the call returned; GeminiBusinessGenerator() is
\* built anew and loads the lead history
NewInstance ==
    /\ gen_pc = "done"
    /\ lead_history' = lead_history \o HistoryRows(gen_result)
    /\ returned_log' = returned_log \o gen_result
    /\ fallback_mode' \in BOOLEAN
    /\ existing_names' = _load_existing_leads(lead_history').names
    /\ existing_emails' = _load_existing_leads(lead_history').emails
    /\ gen_pc' = "idle"
    /\ UNCHANGED <<collector_vars, use_library, fn_vars, req_vars, scrape_vars, dm_vars,
                   pace_vars, gen_args, gen_unique, attempts, gen_result, gen_calls>>

NextReissue ==
    \/ ReissueFallbackMode
    \/ ReissueStart
    \/ ReissueAttempt
    \/ GenerateExcept
    \/ GenerateReturn
    \/ KeepInstance
    \/ NewInstance

SpecReissue == InitReissue /\ [][NextReissue]_vars

----------------------------------------------------------------------------
(* The deduplication of the other collectors:                              *)
(* FreeBusinessCollector._remove_duplicates (free_business_collector.py)   *)
(* and EnhancedScraper._remove_duplicates (enhanced_scraper.py).           *)
(* BusinessData / ScrapedBusiness objects are records; None is a value of  *)
(* its own that is no text.                                                *)

None == <<"None">>

\* x or default
Or(x, default) == IF x = None \/ x = <<>> THEN default ELSE x

S_no_phone == <<"n","o","_","p","h","o","n","e">>
S_no_city == <<"n","o","_","c","i","t","y">>

\* f"{business.name.lower().strip()}_{business.phone or 'no_phone'}"
FreeIdentifier(business) ==
    Strip(Lower(business.name)) \o <<"_">> \o Or(business.phone, S_no_phone)

\* f"{name.lower().strip()}_{phone or 'no_phone'}_{city or 'no_city'}"
EnhancedIdentifier(business) ==
    Strip(Lower(business.name)) \o <<"_">> \o Or(business.phone, S_no_phone)
        \o <<"_">> \o Or(business.city, S_no_city)

\* the for loop of FreeBusinessCollector._remove_duplicates
RECURSIVE FreeDedupLoop(_, _, _, _)
FreeDedupLoop(businesses, i, seen, unique) ==
    IF i > Len(businesses) THEN unique
    ELSE IF FreeIdentifier(businesses[i]) \notin seen
         THEN FreeDedupLoop(businesses, i + 1,
                            seen \cup {FreeIdentifier(businesses[i])},
                            Append(unique, businesses[i]))
         ELSE FreeDedupLoop(businesses, i + 1, seen, unique)

Free_remove_duplicates(businesses) == FreeDedupLoop(businesses, 1, {}, <<>>)

\* the for loop of EnhancedScraper._remove_duplicates
RECURSIVE EnhancedDedupLoop(_, _, _, _)
EnhancedDedupLoop(businesses, i, seen, unique) ==
    IF i > Len(businesses) THEN unique
    ELSE IF EnhancedIdentifier(businesses[i]) \notin seen
         THEN EnhancedDedupLoop(businesses, i + 1,
                                seen \cup {EnhancedIdentifier(businesses[i])},
                                Append(unique, businesses[i]))
         ELSE EnhancedDedupLoop(businesses, i + 1, seen, unique)

Enhanced_remove_duplicates(businesses) == EnhancedDedupLoop(businesses, 1, {}, <<>>)

\* objects for the two methods: names that differ in case and surrounding
\* blanks, with and without a phone, with and without a city
VariantPool ==
    {[name |-> n, phone |-> ph, city |-> c] :
        n \in {<<"A","c","m","e">>, <<" ","a","c","m","e"," ">>, <<"Z","e","d">>},
        ph \in {None, <<"1","1","1">>, <<"2","2","2">>},
        c \in {None, Lahore}}

InitVariantDedup ==
    /\ CollectorInit
    /\ PaceIdle
    /\ GenIdle
    /\ EnhancedIdle
    /\ ScrapeIdle
    /\ DataIdle
    /\ use_library = TRUE
    /\ fn_pc = "variant_ready"
    /\ fn_in \in SeqsUpTo(VariantPool, MaxLen)
    /\ fn_dns = <<>>
    /\ fn_out = <<>>

\* unique = free_collector._remove_duplicates(fn_in)
FreeDedupCall ==
    /\ fn_pc = "variant_ready"
    /\ fn_out' = Free_remove_duplicates(fn_in)
    /\ fn_pc' = "free_returned"
    /\ UNCHANGED <<collector_vars, use_library, fn_in, fn_dns, gen_vars, req_vars, scrape_vars, dm_vars, hist_vars, pace_vars>>

\* unique = enhanced_scraper._remove_duplicates(fn_in)
EnhancedDedupCall ==
    /\ fn_pc = "variant_ready"
    /\ fn_out' = Enhanced_remove_duplicates(fn_in)
    /\ fn_pc' = "enhanced_returned"
    /\ UNCHANGED <<collector_vars, use_library, fn_in, fn_dns, gen_vars, req_vars, scrape_vars, dm_vars, hist_vars, pace_vars>>

NextVariantDedup == FreeDedupCall \/ EnhancedDedupCall

SpecVariantDedup == InitVariantDedup /\ [][NextVariantDedup]_vars

----------------------------------------------------------------------------
(* EnhancedScraper: _calculate_confidence_score,                           *)
(* _extract_business_from_element and scrape_business_directory.  A score  *)
(* is kept in hundredths.  A listing element is what the selectors and     *)
(* _extract_contact_info read from it: the text of its name element (None  *)
(* if no selector matches) and the contact_info dict.                      *)

\* bool(x) for text or None
Truthy(x) == x # None /\ x # <<>>

\* a in b, for two texts
IsSubstring(a, b) ==
    \E i \in 0..(Len(b) - Len(a)) : SubSeq(b, i + 1, i + Len(a)) = a

TrustedSources == {"pakistan_business_directory", "yellow_pages_pk"}

\* the keys of self.business_sources
SourceNames == {"pakistan_business_directory", "yellow_pages_pk", "pakistan_companies"}

\* _calculate_confidence_score without the final min(score, 1.0)
ScoreUnclamped(business) ==
    LET name_score == IF Truthy(business.name) /\ Len(Strip(business.name)) >= 3
                      THEN 30 ELSE 0
        email_score == IF Truthy(business.email) THEN 25 ELSE 0
        phone_score == IF Truthy(business.phone) THEN 20 ELSE 0
        website_score == IF Truthy(business.website) THEN 15 ELSE 0
        address_score == IF Truthy(business.address) THEN 10 ELSE 0
        type_score == IF /\ Truthy(business.business_type) /\ Truthy(business.category)
                         /\ IsSubstring(Lower(business.business_type),
                                        Lower(business.category))
                      THEN 10 ELSE 0
        source_score == IF business.source \in TrustedSources THEN 5 ELSE 0
    IN  name_score + email_score + phone_score + website_score
            + address_score + type_score + source_score

_calculate_confidence_score(business) ==
    LET name_score == IF Truthy(business.name) /\ Len(Strip(business.name)) >= 3
                      THEN 30 ELSE 0
        email_score == IF Truthy(business.email) THEN 25 ELSE 0
        phone_score == IF Truthy(business.phone) THEN 20 ELSE 0
        website_score == IF Truthy(business.website) THEN 15 ELSE 0
        address_score == IF Truthy(business.address) THEN 10 ELSE 0
        type_score == IF /\ Truthy(business.business_type) /\ Truthy(business.category)
                         /\ IsSubstring(Lower(business.business_type),
                                        Lower(business.category))
                      THEN 10 ELSE 0
        source_score == IF business.source \in TrustedSources THEN 5 ELSE 0
    IN  Min(name_score + email_score + phone_score + website_score
                + address_score + type_score + source_score, 100)

\* ScrapedBusiness(name=..., business_type=category, city=city, source=source_name)
\* with the contact fields assigned, before the score is
ScrapedBusiness(name, contact_info, cat, c, source_name) ==
    [name |-> name,
     email |-> Get(contact_info, "email", None),
     phone |-> Get(contact_info, "phone", None),
     address |-> Get(contact_info, "address", None),
     website |-> Get(contact_info, "website", None),
     business_type |-> cat, category |-> None, city |-> c,
     description |-> None, social_media |-> None,
     verified |-> FALSE, source |-> source_name, confidence_score |-> 0]

\* the return value None of a method that otherwise returns an object
NoBusiness == [none |-> TRUE]

\* the business returned for one element, or None; get_text(strip=True)
\* hands the name over stripped
_extract_business_from_element(element, cat, c, source_name) ==
    IF element.raises THEN NoBusiness
    ELSE IF ~Truthy(element.name) \/ Len(Strip(element.name)) < 3 THEN NoBusiness
    ELSE LET business == ScrapedBusiness(element.name, element.contact_info,
                                         cat, c, source_name)
             scored == [business EXCEPT
                           !.confidence_score = _calculate_confidence_score(business)]
         IN  IF scored.confidence_score >= 30 THEN scored ELSE NoBusiness

\* listing elements: a full listing, the same name in capitals with another
\* phone, a name of two characters, an element without a name element, and
\* one whose text cannot be read
S_phone1 == <<"0","4","2","-","1","1","1","-","1","1","1","1">>
S_phone2 == <<"0","4","2","-","2","2","2","-","2","2","2","2">>
ElementAcme ==
    [name |-> <<"A","c","m","e">>, raises |-> FALSE,
     contact_info |-> [email |-> <<"i","n","f","o","@","a","c","m","e",".","p","k">>,
                       phone |-> S_phone1,
                       address |-> <<"1","2"," ","M","a","l","l"," ","R","o","a","d">>,
                       website |-> <<"h","t","t","p",":","/","/","a","c","m","e",".","p","k">>]]
ElementAcmeCapitals ==
    [name |-> <<"A","C","M","E">>, raises |-> FALSE, contact_info |-> [phone |-> S_phone2]]
ElementZed ==
    [name |-> <<"Z","e","d">>, raises |-> FALSE, contact_info |-> EmptyDict]
ElementShort ==
    [name |-> <<"A","b">>, raises |-> FALSE, contact_info |-> [phone |-> S_phone1]]
ElementNameless ==
    [name |-> None, raises |-> FALSE, contact_info |-> EmptyDict]
ElementUnreadable ==
    [name |-> <<"Z","e","d">>, raises |-> TRUE, contact_info |-> EmptyDict]

\* what a fetched page gives: the parser raises, or the first matching
\* selector finds these elements
PagePool ==
    {[parse_raises |-> TRUE, elements |-> <<>>],
     [parse_raises |-> FALSE, elements |-> <<>>],
     [parse_raises |-> FALSE, elements |-> <<ElementAcme, ElementShort>>],
     [parse_raises |-> FALSE, elements |-> <<ElementAcmeCapitals, ElementNameless, ElementZed>>],
     [parse_raises |-> FALSE, elements |-> <<ElementUnreadable, ElementAcme>>]}

\* the for loop over business_elements[:20]
RECURSIVE ExtractLoop(_, _, _, _, _, _)
ExtractLoop(elements, i, cat, c, source_name, businesses) ==
    IF i > Len(elements) THEN businesses
    ELSE LET business_data == _extract_business_from_element(elements[i], cat, c,
                                                             source_name)
         IN  ExtractLoop(elements, i + 1, cat, c, source_name,
                         IF business_data # NoBusiness THEN Append(businesses, business_data)
                         ELSE businesses)

\* scrape_business_directory after its _make_request call returned
\* response ("None" or "response"; "raised" if the call raised into the
\* method's own try) and the page read from a response
DirectoryResult(source_name, cat, c, response, page) ==
    IF response = "raised" THEN <<>>
    ELSE IF response = "None" THEN <<>>
    ELSE IF page.parse_raises THEN <<>>
    ELSE IF page.elements = <<>> THEN <<>>
    ELSE ExtractLoop(Take(page.elements, 20), 1, cat, c, source_name, <<>>)

----------------------------------------------------------------------------
(* EnhancedScraper (enhanced_scraper.py): _rate_limit, _get_next_proxy,    *)
(* _make_request and the scrape_business_directory call around it.  Time   *)
(* enters the code only through the comparison of                          *)
(* time.time() - self.last_request_time with min_delay, so the model keeps *)
(* that difference, in whole seconds and counted no further than           *)
(* min_delay.                                                              *)

\* what _load_free_proxies found: nothing, or two addresses
ProxyLists == {<<>>, <<"10.0.0.1:8080", "10.0.0.2:3128">>}

\* exceptions of requests that self.session.get raises
NetworkExceptions == {"ConnectionError", "Timeout"}

\* what one self.session.get can do: answer with a status code or raise
ServerOutcomes ==
    {[kind |-> "status", code |-> c, cls |-> ""] : c \in {200, 429, 503, 404}}
    \cup {[kind |-> "exception", code |-> 0, cls |-> e] : e \in NetworkExceptions}

\* a narrower except clause
RequestHandlerNarrow == "Timeout"

\* the class named by the except clause of _make_request
RequestHandler == "Exception"

\* _rate_limit: TRUE when the call sleeps random.uniform(min_delay, max_delay)
RateLimitSleeps(since) == since < min_delay

\* _get_next_proxy: the proxy handed out and the next index
_get_next_proxy(list, index) ==
    IF list = <<>>
    THEN [proxy |-> "None", index |-> index]
    ELSE [proxy |-> list[index + 1], index |-> (index + 1) % Len(list)]

\* ProxyFor without the test retries > 0
ProxyForEveryAttempt(list, index, r) == _get_next_proxy(list, index)

\* proxy = self._get_next_proxy() if retries > 0 else None
ProxyFor(list, index, r) ==
    IF r > 0 THEN _get_next_proxy(list, index) ELSE [proxy |-> "None", index |-> index]

\* Branch with the comparisons retries <= self.max_retries
BranchOneMore(outcome, r) ==
    IF outcome.kind = "status"
    THEN IF outcome.code = 200 THEN "response"
         ELSE IF outcome.code \in {429, 503} /\ r <= max_retries THEN "retry"
         ELSE "none"
    ELSE IF ~Catches(RequestHandler, outcome.cls) THEN "raise"
    ELSE IF r <= max_retries THEN "retry" ELSE "none"

\* the branch one level of _make_request takes after its session.get:
\* "response" (return response), "retry" (sleep, then the recursive call),
\* "none" (return None) or "raise" (the exception leaves the method)
Branch(outcome, r) ==
    IF outcome.kind = "status"
    THEN IF outcome.code = 200 THEN "response"
         ELSE IF outcome.code \in {429, 503} /\ r < max_retries THEN "retry"
         ELSE "none"
    ELSE IF ~Catches(RequestHandler, outcome.cls) THEN "raise"
    ELSE IF r < max_retries THEN "retry" ELSE "none"

\* a scraper after __init__ and any earlier requests, inside
\* scrape_business_directory(source_name, category, city) and about to run
\* _make_request(search_url)
InitRequest ==
    /\ CollectorInit
    /\ PaceIdle
    /\ GenIdle
    /\ ScrapeIdle
    /\ DataIdle
    /\ use_library = TRUE
    /\ fn_pc = "off" /\ fn_in = <<>> /\ fn_dns = <<>> /\ fn_out = <<>>
    /\ proxy_list \in ProxyLists
    /\ current_proxy_index \in {i \in 0..1 : i = 0 \/ i < Len(proxy_list)}
    /\ since_last_request \in 0..min_delay
    /\ req_pc = "attempt" /\ retries = 0 /\ http_attempts = 0
    /\ outcomes = <<>> /\ proxies_used = <<>> /\ rate_slept = <<>>
    /\ req_result = "none_yet"
    /\ dir_source \in SourceNames /\ dir_result = <<>>

\* one level of _make_request(url, retries): _rate_limit, headers and proxy,
\* session.get, and the branch on its outcome; the backoff sleep of a retry
\* lasts at least min_delay seconds
Attempt ==
    /\ req_pc = "attempt"
    /\ \E outcome \in ServerOutcomes :
          LET p == ProxyFor(proxy_list, current_proxy_index, retries)
              branch == Branch(outcome, retries)
          IN  /\ current_proxy_index' = p.index
              /\ proxies_used' = Append(proxies_used, p.proxy)
              /\ rate_slept' = Append(rate_slept, RateLimitSleeps(since_last_request))
              /\ outcomes' = Append(outcomes, outcome)
              /\ http_attempts' = http_attempts + 1
              /\ IF branch = "retry"
                 THEN /\ retries' = retries + 1
                      /\ since_last_request' = min_delay
                      /\ UNCHANGED <<req_pc, req_result>>
                 ELSE /\ req_pc' = "returned"
                      /\ req_result' = CASE branch = "response" -> "response"
                                         [] branch = "none" -> "None"
                                         [] OTHER -> "raised"
                      /\ since_last_request' = 0
                      /\ UNCHANGED retries
    /\ UNCHANGED <<collector_vars, use_library, fn_vars, gen_vars, scrape_vars, dm_vars,
                   hist_vars, pace_vars, proxy_list, dir_source, dir_result>>

\* the rest of scrape_business_directory: the check of the response, the
\* parse of the page and the loop over its elements
DirectoryReturn ==
    /\ req_pc = "returned"
    /\ req_pc' = "directory_returned"
    /\ \E page \in PagePool :
          dir_result' = DirectoryResult(dir_source, Technology, Lahore, req_result, page)
    /\ UNCHANGED <<collector_vars, use_library, fn_vars, gen_vars, scrape_vars, dm_vars,
                   hist_vars, pace_vars, proxy_list, current_proxy_index, since_last_request,
                   retries, http_attempts, outcomes, proxies_used, rate_slept,
                   req_result, dir_source>>

NextRequest == Attempt \/ DirectoryReturn

SpecRequest == InitRequest /\ [][NextRequest]_vars

\* every _make_request level that is started runs to its end, and so does
\* the method that called it
SpecRequestFair == SpecRequest /\ WF_vars(Attempt) /\ WF_vars(DirectoryReturn)

----------------------------------------------------------------------------
(* Direct calls of _calculate_confidence_score on every combination of     *)
(* present and absent fields, and of _extract_business_from_element on     *)
(* every element over a pool of names and contact_info dicts.  Names are   *)
(* as get_text(strip=True) hands them over: without surrounding blanks.    *)

S_email == <<"i","n","f","o","@","a","c","m","e",".","p","k">>
S_address == <<"1","2"," ","M","a","l","l"," ","R","o","a","d">>
S_website == <<"h","t","t","p",":","/","/","a","c","m","e",".","p","k">>
S_tech == <<"t","e","c","h">>

ScoreNames == {None, <<>>, <<"A","b">>, <<"Z","e","d">>, <<"A","c","m","e">>}

ScorePool ==
    [name : ScoreNames, email : {None, S_email}, phone : {None, S_phone1},
     address : {None, <<>>, S_address}, website : {None, S_website},
     business_type : {None, S_tech, Technology}, category : {None, Technology, Healthcare},
     city : {Lahore}, description : {None}, social_media : {None},
     verified : {FALSE}, source : SourceNames \cup {"enhanced_scraper"},
     confidence_score : {0}]

ContactKeys == {"email", "phone", "address", "website"}

ContactValue(key) ==
    CASE key = "email" -> S_email
      [] key = "phone" -> S_phone1
      [] key = "address" -> S_address
      [] OTHER -> S_website

\* the dicts _extract_contact_info can return
ContactInfos == {[key \in keys |-> ContactValue(key)] : keys \in SUBSET ContactKeys}

ExtractPool ==
    [element : [name : ScoreNames, raises : BOOLEAN, contact_info : ContactInfos],
     source_name : SourceNames]

InitScore ==
    /\ CollectorInit
    /\ PaceIdle
    /\ GenIdle
    /\ EnhancedIdle
    /\ ScrapeIdle
    /\ DataIdle
    /\ use_library = TRUE
    /\ fn_dns = <<>> /\ fn_out = <<>>
    /\ \/ fn_pc = "score" /\ fn_in \in ScorePool
       \/ fn_pc = "extract" /\ fn_in \in ExtractPool

ScoreCall ==
    /\ fn_pc = "score"
    /\ fn_out' = _calculate_confidence_score(fn_in)
    /\ fn_pc' = "scored"
    /\ UNCHANGED <<collector_vars, use_library, fn_in, fn_dns, gen_vars, req_vars,
                   scrape_vars, dm_vars, hist_vars, pace_vars>>

ExtractCall ==
    /\ fn_pc = "extract"
    /\ fn_out' = _extract_business_from_element(fn_in.element, Technology, Lahore,
                                                fn_in.source_name)
    /\ fn_pc' = "extracted"
    /\ UNCHANGED <<collector_vars, use_library, fn_in, fn_dns, gen_vars, req_vars,
                   scrape_vars, dm_vars, hist_vars, pace_vars>>

NextScore == ScoreCall \/ ExtractCall

SpecScore == InitScore /\ [][NextScore]_vars

----------------------------------------------------------------------------
(* EnhancedScraper.scrape_multiple_sources: one future per source, run by  *)
(* the thread pool in any order, and the loop over as_completed in the     *)
(* thread of the caller.  A task is scrape_business_directory; what its    *)
(* request and its page give is the environment's choice.  The shared      *)
(* request state of the threads (last_request_time, proxy index) decides   *)
(* delays and proxies only; it is followed in the section on pacing.       *)

\* what _make_request gave a task
RequestResults == {"None", "response"}

\* largest max_businesses of the model's calls
MaxBusinesses == 2

\* all_businesses = businesses
ExtendReplacing(list, businesses) == businesses

\* all_businesses.extend(businesses)
Extend(list, businesses) == list \o businesses

\* sorted(unique_businesses, key=lambda x: x.confidence_score, reverse=True):
\* a stable sort, so equal scores keep their order
RECURSIVE InsertByConfidence(_, _)
InsertByConfidence(sorted, business) ==
    IF sorted = <<>> THEN <<business>>
    ELSE IF Head(sorted).confidence_score >= business.confidence_score
         THEN <<Head(sorted)>> \o InsertByConfidence(Tail(sorted), business)
         ELSE <<business>> \o sorted

RECURSIVE SortByConfidence(_)
SortByConfidence(list) ==
    IF list = <<>> THEN <<>>
    ELSE InsertByConfidence(SortByConfidence(SubSeq(list, 1, Len(list) - 1)),
                            list[Len(list)])

\* scrape_multiple_sources(category, city, max_businesses) submitted its
\* three tasks
InitScrape ==
    /\ CollectorInit
    /\ PaceIdle
    /\ GenIdle
    /\ EnhancedIdle
    /\ DataIdle
    /\ use_library = TRUE
    /\ fn_pc = "off" /\ fn_in = <<>> /\ fn_dns = <<>> /\ fn_out = <<>>
    /\ futures = [source_name \in SourceNames |->
                     [state |-> "pending", failed |-> FALSE, result |-> <<>>]]
    /\ completed = <<>> /\ all_scraped = <<>>
    /\ scrape_pc = "collecting"
    /\ max_businesses \in 1..MaxBusinesses
    /\ scrape_result = <<>>

\* a worker thread runs scrape_business_directory(source_name, ...) to its
\* return; the task failed when the fetch gave None or the parse raised
TaskRun(source_name) ==
    /\ scrape_pc = "collecting"
    /\ futures[source_name].state = "pending"
    /\ \E response \in RequestResults, page \in PagePool :
          futures' = [futures EXCEPT ![source_name] =
                         [state |-> "done",
                          failed |-> response = "None" \/ page.parse_raises,
                          result |-> DirectoryResult(source_name, Technology, Lahore,
                                                     response, page)]]
    /\ UNCHANGED <<collector_vars, use_library, fn_vars, gen_vars, req_vars, dm_vars,
                   hist_vars, pace_vars, completed, all_scraped, scrape_pc, max_businesses,
                   scrape_result>>

\* as_completed yields a finished future: future.result() and extend
Collect(source_name) ==
    /\ scrape_pc = "collecting"
    /\ futures[source_name].state = "done"
    /\ futures' = [futures EXCEPT ![source_name].state = "collected"]
    /\ completed' = Append(completed, source_name)
    /\ all_scraped' = Extend(all_scraped, futures[source_name].result)
    /\ UNCHANGED <<collector_vars, use_library, fn_vars, gen_vars, req_vars, dm_vars,
                   hist_vars, pace_vars, scrape_pc, max_businesses, scrape_result>>

\* after the with block: _remove_duplicates, sorted, the slice and return
Finish ==
    /\ scrape_pc = "collecting"
    /\ \A source_name \in SourceNames : futures[source_name].state = "collected"
    /\ scrape_result' = Take(SortByConfidence(Enhanced_remove_duplicates(all_scraped)),
                             max_businesses)
    /\ scrape_pc' = "returned"
    /\ UNCHANGED <<collector_vars, use_library, fn_vars, gen_vars, req_vars, dm_vars,
                   hist_vars, pace_vars, futures, completed, all_scraped, max_businesses>>

NextScrape ==
    \/ \E source_name \in SourceNames : TaskRun(source_name)
    \/ \E source_name \in SourceNames : Collect(source_name)
    \/ Finish

SpecScrape == InitScrape /\ [][NextScrape]_vars

----------------------------------------------------------------------------
(* Direct comparisons of two business names by _names_are_similar, called  *)
(* as _is_duplicate calls it: on the stripped, lowercased name of the      *)
(* candidate and a name of self.existing_names, which holds stripped,      *)
(* lowercased names.                                                       *)

S_TechSolutionsPvtLtd == <<"T","e","c","h"," ","S","o","l","u","t","i","o","n","s"," ","P","v","t"," ","L","t","d">>
S_TechSolutions == <<"T","e","c","h"," ","S","o","l","u","t","i","o","n","s">>
S_HealthServices == <<"H","e","a","l","t","h"," ","S","e","r","v","i","c","e","s">>
S_SolutionsLtd == <<"S","o","l","u","t","i","o","n","s"," ","L","t","d",".">>
S_TechDashSolutions == <<" ","t","e","c","h","-","s","o","l","u","t","i","o","n","s"," ","c","o","."," ">>
S_AcmeDataLabsHub == <<"A","c","m","e"," ","D","a","t","a"," ","L","a","b","s"," ","H","u","b">>
S_AcmeDataLabs == <<"A","c","m","e"," ","D","a","t","a"," ","L","a","b","s">>
S_AcmeData == <<"A","C","M","E"," ","D","A","T","A">>
S_HealthTech == <<"H","e","a","l","t","h"," ","T","e","c","h">>
S_Empty == <<>>

SimilarityNames ==
    {S_TechSolutionsPvtLtd,
     S_TechSolutions,
     S_HealthServices,
     S_SolutionsLtd,
     S_TechDashSolutions,
     S_AcmeDataLabsHub,
     S_AcmeDataLabs,
     S_AcmeData,
     S_HealthTech,
     S_Empty}

InitSimilar ==
    /\ CollectorInit
    /\ PaceIdle
    /\ GenIdle
    /\ EnhancedIdle
    /\ ScrapeIdle
    /\ DataIdle
    /\ use_library = TRUE
    /\ fn_pc = "compare" /\ fn_dns = <<>> /\ fn_out = <<>>
    /\ fn_in \in SimilarityNames \X SimilarityNames

\* business_name = business.name.strip().lower() against an existing name
SimilarCall ==
    /\ fn_pc = "compare"
    /\ fn_out' = _names_are_similar(Strip(Lower(fn_in[1])), Strip(Lower(fn_in[2])))
    /\ fn_pc' = "compared"
    /\ UNCHANGED <<collector_vars, use_library, fn_in, fn_dns, gen_vars, req_vars,
                   scrape_vars, dm_vars, hist_vars, pace_vars>>

NextSimilar == SimilarCall

SpecSimilar == InitSimilar /\ [][NextSimilar]_vars

----------------------------------------------------------------------------
(* DataManager (data_manager.py): the three current-session CSV files, the *)
(* three history CSV files and campaign_records.json.  A dict handed to a  *)
(* save method is a sequence of <<key, value>> pairs, because the order of *)
(* its keys decides the columns csv.DictWriter writes; keys and values are *)
(* strings.  A CSV file is its header line and its data rows.              *)

RecordTypes == {"leads", "emails", "results"}

\* _initialize_files: the header of each file it creates
leads_headers ==
    <<"name", "email", "phone", "address", "website", "business_type", "verified",
      "source", "city", "timestamp">>
emails_headers ==
    <<"business_name", "business_type", "email", "city", "generated_email", "status",
      "timestamp">>
results_headers ==
    <<"business_name", "email", "status", "message", "business_type", "city",
      "timestamp">>

SessionHeader(type) ==
    CASE type = "leads" -> leads_headers
      [] type = "emails" -> emails_headers
      [] OTHER -> results_headers

\* lead_history.csv, email_history.csv and sent_emails.csv
HistoryHeader(type) ==
    CASE type = "leads" -> leads_headers
      [] type = "emails" -> emails_headers
      [] OTHER -> results_headers

\* _create_csv_file(file_path, headers)
_create_csv_file(headers) == [header |-> headers, rows |-> <<>>]

\* list(d.keys())
Keys(d) == [i \in 1..Len(d) |-> d[i][1]]

\* d.get(key, default)
DictGet(d, key, default) ==
    IF \E i \in 1..Len(d) : d[i][1] = key
    THEN d[CHOOSE i \in 1..Len(d) : d[i][1] = key][2]
    ELSE default

\* d[key] = value: a key the dict has keeps its place, a new key goes last
SetItem(d, key, value) ==
    IF \E i \in 1..Len(d) : d[i][1] = key
    THEN [i \in 1..Len(d) |-> IF d[i][1] = key THEN <<key, value>> ELSE d[i]]
    ELSE Append(d, <<key, value>>)

\* datetime.now().isoformat() at the n-th call of the model
Timestamp(n) == ToString(n)

\* csv.DictWriter._dict_to_list: ValueError for a key outside fieldnames
DictRaises(d, fieldnames) == \E i \in 1..Len(d) : d[i][1] \notin Range(fieldnames)

\* the row written for a dict: one value per field name, '' for a missing key
_dict_to_list(d, fieldnames) ==
    [j \in 1..Len(fieldnames) |-> DictGet(d, fieldnames[j], "")]

\* writer.writerows(data): the rows that reach the file, which are those
\* before the first dict that raises, and whether a dict raised
RECURSIVE WriteRows(_, _, _, _)
WriteRows(data, i, fieldnames, rows) ==
    IF i > Len(data) THEN [rows |-> rows, raised |-> FALSE]
    ELSE IF DictRaises(data[i], fieldnames) THEN [rows |-> rows, raised |-> TRUE]
    ELSE WriteRows(data, i + 1, fieldnames, Append(rows, _dict_to_list(data[i], fieldnames)))

\* _save_to_csv with the history file opened in mode 'w'
SaveToCsvTruncating(file, data, append) ==
    LET fieldnames == Keys(data[1])
        written == WriteRows(data, 1, fieldnames, <<>>)
    IN  [file |-> [header |-> IF append THEN file.header ELSE fieldnames,
                   rows |-> written.rows],
         raised |-> written.raised]

\* _save_to_csv(file_path, data, append) for a non-empty data: the file
\* afterwards and whether the call raised
_save_to_csv(file, data, append) ==
    LET fieldnames == Keys(data[1])
        written == WriteRows(data, 1, fieldnames, <<>>)
    IN  [file |-> IF append
                  THEN [header |-> file.header, rows |-> file.rows \o written.rows]
                  ELSE [header |-> fieldnames, rows |-> written.rows],
         raised |-> written.raised]

\* for lead in leads: lead['timestamp'] = timestamp
Stamped(data, timestamp) ==
    [i \in 1..Len(data) |-> SetItem(data[i], "timestamp", timestamp)]

\* _update_campaign_records(action, count, success_count): the list 'campaigns'
_update_campaign_records(records, action, count, success_count) ==
    Append(records, [action |-> action, count |-> count, success_count |-> success_count])

\* sum(1 for r in results if r.get('status') == 'sent')
SuccessCount(results) ==
    Cardinality({i \in 1..Len(results) : DictGet(results[i], "status", "None") = "sent"})

\* dicts handed to the save methods
LeadArpatech ==
    << <<"name", "Arpatech">>, <<"email", "contact@arpatech.com">>,
       <<"source", "verified_database">> >>
Lead10Pearls ==
    << <<"name", "10Pearls">>, <<"email", "hello@10pearls.com">>,
       <<"source", "verified_database">> >>
LeadEnhanced ==
    << <<"email", "info@acme.pk">>, <<"name", "Acme">>, <<"source", "google_search">>,
       <<"description", "Software house">> >>
EmailArpatech ==
    << <<"business_name", "Arpatech">>, <<"email", "contact@arpatech.com">>,
       <<"generated_email", "Dear Arpatech">> >>
EmailAcme ==
    << <<"business_name", "Acme">>, <<"email", "info@acme.pk">>,
       <<"generated_email", "Dear Acme">>, <<"timestamp", "earlier">> >>
ResultSent ==
    << <<"business_name", "Arpatech">>, <<"email", "contact@arpatech.com">>,
       <<"status", "sent">> >>
ResultFailed ==
    << <<"business_name", "Acme">>, <<"email", "info@acme.pk">>,
       <<"status", "failed">>, <<"message", "bounced">> >>

\* the lists handed to the save method of a record type; in the last list
\* of each type a later dict has a key the first dict lacks
SaveLists(type) ==
    CASE type = "leads" ->
             {<<>>, <<LeadArpatech>>, <<LeadEnhanced, Lead10Pearls>>,
              <<Lead10Pearls, LeadEnhanced>>}
      [] type = "emails" ->
             {<<>>, <<EmailAcme>>, <<EmailAcme, EmailArpatech>>,
              <<EmailArpatech, EmailAcme, EmailArpatech>>}
      [] OTHER ->
             {<<>>, <<ResultSent>>, <<ResultFailed, ResultSent>>,
              <<ResultSent, ResultFailed>>}

\* calls of the save methods and of clear_session_data per behaviour
MaxSaves == 3

\* DataManager() in an empty data directory
InitData ==
    /\ CollectorInit
    /\ PaceIdle
    /\ GenIdle
    /\ EnhancedIdle
    /\ ScrapeIdle
    /\ use_library = TRUE
    /\ fn_pc = "off" /\ fn_in = <<>> /\ fn_dns = <<>> /\ fn_out = <<>>
    /\ session_files = [type \in RecordTypes |-> _create_csv_file(SessionHeader(type))]
    /\ history_files = [type \in RecordTypes |-> _create_csv_file(HistoryHeader(type))]
    /\ campaign_records = <<>>
    /\ dm_return = "none_yet"
    /\ saved_log = <<>>
    /\ lead_history = <<>> /\ returned_log = <<>>

\* the body shared by save_leads, save_generated_emails and
\* save_campaign_results, up to the second _save_to_csv: the two files
\* afterwards and whether an exception reached the except clause
SaveBoth(type, data) ==
    LET session == _save_to_csv(session_files[type], data, FALSE)
        history == _save_to_csv(history_files[type], data, TRUE)
    IN  IF session.raised
        THEN [session |-> session.file, history |-> history_files[type], raised |-> TRUE]
        ELSE [session |-> session.file, history |-> history.file,
              raised |-> history.raised]

\* one call of a save method of record type type with the list data
Save(type, data) ==
    /\ Len(saved_log) < MaxSaves
    /\ IF data = <<>>
       THEN /\ dm_return' = "False"
            /\ saved_log' = Append(saved_log, [op |-> "save", type |-> type,
                                               data |-> data, ok |-> FALSE])
            /\ UNCHANGED <<session_files, history_files, campaign_records>>
       ELSE LET stamped == Stamped(data, Timestamp(Len(saved_log)))
                saved == SaveBoth(type, stamped)
            IN  /\ session_files' = [session_files EXCEPT ![type] = saved.session]
                /\ history_files' = [history_files EXCEPT ![type] = saved.history]
                /\ campaign_records' =
                       IF saved.raised \/ type = "emails" THEN campaign_records
                       ELSE IF type = "leads"
                       THEN _update_campaign_records(campaign_records, "leads_generated",
                                                     Len(stamped), 0)
                       ELSE _update_campaign_records(campaign_records, "emails_sent",
                                                     Len(stamped), SuccessCount(stamped))
                /\ dm_return' = IF saved.raised THEN "False" ELSE "True"
                /\ saved_log' = Append(saved_log, [op |-> "save", type |-> type,
                                                   data |-> stamped, ok |-> ~saved.raised])
    /\ UNCHANGED <<collector_vars, use_library, fn_vars, gen_vars, req_vars, scrape_vars,
                   hist_vars, pace_vars>>

save_leads == \E leads \in SaveLists("leads") : Save("leads", leads)

save_generated_emails == \E emails \in SaveLists("emails") : Save("emails", emails)

save_campaign_results == \E results \in SaveLists("results") : Save("results", results)

\* clear_session_data: unlink the three session files, then _initialize_files
clear_session_data ==
    /\ Len(saved_log) < MaxSaves
    /\ session_files' = [type \in RecordTypes |-> _create_csv_file(SessionHeader(type))]
    /\ saved_log' = Append(saved_log, [op |-> "clear", type |-> "all",
                                       data |-> <<>>, ok |-> TRUE])
    /\ UNCHANGED <<history_files, campaign_records, dm_return>>
    /\ UNCHANGED <<collector_vars, use_library, fn_vars, gen_vars, req_vars, scrape_vars,
                   hist_vars, pace_vars>>

NextData ==
    \/ save_leads
    \/ save_generated_emails
    \/ save_campaign_results
    \/ clear_session_data

SpecData == InitData /\ [][NextData]_vars

----------------------------------------------------------------------------
(* The pacing of requests.  _rate_limit of BusinessCollector,              *)
(* FreeBusinessCollector and EnhancedScraper, and the part of              *)
(* EnhancedScraper._make_request around it, are followed statement by      *)
(* statement against a clock of whole seconds.  One thread ("main") makes  *)
(* the fetches of an instance one after the other; in                      *)
(* scrape_multiple_sources the executor runs one thread per source, all on *)
(* the same EnhancedScraper, and a thread can be preempted between any two *)
(* statements, and between two reads or writes of a field of self within   *)
(* one statement.  time.sleep(d) returns at any time from d seconds on.    *)

PaceFetchers == {"BusinessCollector", "FreeBusinessCollector", "EnhancedScraper"}

\* self.min_delay of BusinessCollector and of FreeBusinessCollector
bc_min_delay == 2
free_min_delay == 1

MinDelayOf(f) ==
    CASE f = "BusinessCollector" -> bc_min_delay
      [] f = "FreeBusinessCollector" -> free_min_delay
      [] OTHER -> min_delay

MaxTime == 4        \* the clock stops here when three threads run
MaxPaceTime == 8    \* and here when one does
MaxFetches == 3     \* fetches the single thread makes one after the other

ClockEnd == IF "main" \in DOMAIN w_pc THEN MaxPaceTime ELSE MaxTime

\* a _rate_limit that never sleeps
RateLimitNoSleep(f, current_time, last) == {}

\* the arguments _rate_limit can hand to time.sleep: none when enough time
\* has passed, else min_delay - time_since_last, or in EnhancedScraper
\* random.uniform(min_delay, max_delay), of which the two ends are drawn
RateLimitSleep(f, current_time, last) ==
    IF current_time - last < MinDelayOf(f)
    THEN IF f = "EnhancedScraper"
         THEN {min_delay, max_delay}
         ELSE {MinDelayOf(f) - (current_time - last)}
    ELSE {}

\* the shortest sleep before the recursive call: random.uniform(5, 15)
\* after a 429 or 503, random.uniform(2, 8) after an exception
BackoffSleep(outcome) == IF outcome.kind = "status" THEN 5 ELSE 2

\* the local variables of a thread about to make its first fetch
ThreadStart(fetches) ==
    [current_time |-> 0, wake |-> 0, after |-> "", retries |-> 0, index |-> 0,
     calls_left |-> fetches, limits |-> 0, gets |-> 0]

\* the fields of the instance and the rest of the program at rest
PaceCommonInit ==
    /\ CollectorInit
    /\ GenIdle
    /\ ScrapeIdle
    /\ DataIdle
    /\ use_library = TRUE
    /\ fn_pc = "off" /\ fn_in = <<>> /\ fn_dns = <<>> /\ fn_out = <<>>
    /\ since_last_request = min_delay
    /\ req_pc = "off" /\ retries = 0 /\ http_attempts = 0
    /\ outcomes = <<>> /\ proxies_used = <<>> /\ rate_slept = <<>>
    /\ req_result = "none_yet"
    /\ dir_source = "" /\ dir_result = <<>>
    /\ request_times = <<>> /\ proxy_handed = <<>>

\* one instance of any of the three classes, used by one thread; it may
\* have made requests before
InitPace ==
    /\ PaceCommonInit
    /\ fetcher \in PaceFetchers
    /\ proxy_list \in IF fetcher = "EnhancedScraper" THEN ProxyLists ELSE {<<>>}
    /\ current_proxy_index \in {i \in 0..1 : i = 0 \/ i < Len(proxy_list)}
    /\ now = MinDelayOf(fetcher)
    /\ last_request_time \in 0..now
    /\ w_pc = [t \in {"main"} |-> "start"]
    /\ w_local = [t \in {"main"} |-> ThreadStart(MaxFetches)]

\* scrape_multiple_sources has submitted scrape_business_directory for each
\* source, and each of the three threads is about to enter _make_request
InitWorkers ==
    /\ PaceCommonInit
    /\ fetcher = "EnhancedScraper"
    /\ proxy_list \in ProxyLists
    /\ current_proxy_index \in {i \in 0..1 : i = 0 \/ i < Len(proxy_list)}
    /\ now = min_delay
    /\ last_request_time \in 0..now
    /\ w_pc = [t \in SourceNames |-> "start"]
    /\ w_local = [t \in SourceNames |-> ThreadStart(1)]

PaceUnchanged ==
    UNCHANGED <<collector_vars, use_library, fn_vars, gen_vars, scrape_vars, dm_vars,
                hist_vars, proxy_list, since_last_request, req_pc, retries,
                http_attempts, outcomes, proxies_used, rate_slept, req_result,
                dir_source, dir_result, fetcher>>

\* a second passes
Tick ==
    /\ fetcher # ""
    /\ now < ClockEnd
    /\ now' = now + 1
    /\ PaceUnchanged
    /\ UNCHANGED <<current_proxy_index, last_request_time, w_pc, w_local,
                   request_times, proxy_handed>>

\* current_time = time.time()
ReadClock(t) ==
    /\ w_pc[t] = "start"
    /\ w_local' = [w_local EXCEPT ![t].current_time = now]
    /\ w_pc' = [w_pc EXCEPT ![t] = "check"]
    /\ PaceUnchanged
    /\ UNCHANGED <<current_proxy_index, now, last_request_time, request_times,
                   proxy_handed>>

\* if current_time - self.last_request_time < self.min_delay: time.sleep(...)
CheckElapsed(t) ==
    /\ w_pc[t] = "check"
    /\ LET sleeps == RateLimitSleep(fetcher, w_local[t].current_time, last_request_time)
       IN  IF sleeps = {}
           THEN /\ w_pc' = [w_pc EXCEPT ![t] = "write"]
                /\ UNCHANGED w_local
           ELSE /\ \E d \in sleeps :
                      w_local' = [w_local EXCEPT ![t].wake = now + d,
                                                 ![t].after = "write"]
                /\ w_pc' = [w_pc EXCEPT ![t] = "sleep"]
    /\ PaceUnchanged
    /\ UNCHANGED <<current_proxy_index, now, last_request_time, request_times,
                   proxy_handed>>

\* time.sleep returns
WakeUp(t) ==
    /\ w_pc[t] = "sleep"
    /\ now >= w_local[t].wake
    /\ w_pc' = [w_pc EXCEPT ![t] = w_local[t].after]
    /\ PaceUnchanged
    /\ UNCHANGED <<current_proxy_index, now, last_request_time, w_local,
                   request_times, proxy_handed>>

\* self.last_request_time = time.time(), the last statement of _rate_limit;
\* in _make_request, proxy = self._get_next_proxy() if retries > 0 else None
WriteLast(t) ==
    /\ w_pc[t] = "write"
    /\ last_request_time' = now
    /\ request_times' = Append(request_times, now)
    /\ w_local' = [w_local EXCEPT ![t].limits = @ + 1]
    /\ w_pc' = [w_pc EXCEPT ![t] = IF fetcher = "EnhancedScraper"
                                      /\ w_local[t].retries > 0
                                   THEN "proxy" ELSE "get"]
    /\ PaceUnchanged
    /\ UNCHANGED <<current_proxy_index, now, proxy_handed>>

\* _get_next_proxy: if not self.proxy_list: return None;
\* proxy = self.proxy_list[self.current_proxy_index]
PickProxy(t) ==
    /\ w_pc[t] = "proxy"
    /\ IF proxy_list = <<>>
       THEN /\ w_pc' = [w_pc EXCEPT ![t] = "get"]
            /\ UNCHANGED proxy_handed
       ELSE /\ proxy_handed' = Append(proxy_handed,
                                      [index |-> current_proxy_index,
                                       proxy |-> proxy_list[current_proxy_index + 1]])
            /\ w_pc' = [w_pc EXCEPT ![t] = "load"]
    /\ PaceUnchanged
    /\ UNCHANGED <<current_proxy_index, now, last_request_time, w_local,
                   request_times>>

\* the read of self.current_proxy_index in
\* self.current_proxy_index = (self.current_proxy_index + 1) % len(self.proxy_list)
LoadIndex(t) ==
    /\ w_pc[t] = "load"
    /\ w_local' = [w_local EXCEPT ![t].index = current_proxy_index]
    /\ w_pc' = [w_pc EXCEPT ![t] = "store"]
    /\ PaceUnchanged
    /\ UNCHANGED <<current_proxy_index, now, last_request_time, request_times,
                   proxy_handed>>

\* the assignment of that statement, after len(self.proxy_list) was called
StoreIndex(t) ==
    /\ w_pc[t] = "store"
    /\ current_proxy_index' = (w_local[t].index + 1) % Len(proxy_list)
    /\ w_pc' = [w_pc EXCEPT ![t] = "get"]
    /\ PaceUnchanged
    /\ UNCHANGED <<now, last_request_time, w_local, request_times, proxy_handed>>

\* self.session.get(...) and what follows it: in _make_request the return
\* or the backoff sleep and the recursive call; in the other two classes
\* the caller goes on to its next fetch whatever the request did
HttpGet(t) ==
    /\ w_pc[t] = "get"
    /\ \E outcome \in ServerOutcomes :
          LET branch == IF fetcher = "EnhancedScraper"
                        THEN Branch(outcome, w_local[t].retries) ELSE "return"
          IN  IF branch = "retry"
              THEN /\ w_local' = [w_local EXCEPT ![t].gets = @ + 1,
                                                 ![t].retries = @ + 1,
                                                 ![t].wake = now + BackoffSleep(outcome),
                                                 ![t].after = "start"]
                   /\ w_pc' = [w_pc EXCEPT ![t] = "sleep"]
              ELSE /\ w_local' = [w_local EXCEPT ![t].gets = @ + 1,
                                                 ![t].retries = 0,
                                                 ![t].calls_left = @ - 1]
                   /\ w_pc' = [w_pc EXCEPT ![t] = IF w_local[t].calls_left > 1
                                                  THEN "start" ELSE "done"]
    /\ PaceUnchanged
    /\ UNCHANGED <<current_proxy_index, now, last_request_time, request_times,
                   proxy_handed>>

NextPace ==
    \/ Tick
    \/ \E t \in DOMAIN w_pc : ReadClock(t)
    \/ \E t \in DOMAIN w_pc : CheckElapsed(t)
    \/ \E t \in DOMAIN w_pc : WakeUp(t)
    \/ \E t \in DOMAIN w_pc : WriteLast(t)
    \/ \E t \in DOMAIN w_pc : PickProxy(t)
    \/ \E t \in DOMAIN w_pc : LoadIndex(t)
    \/ \E t \in DOMAIN w_pc : StoreIndex(t)
    \/ \E t \in DOMAIN w_pc : HttpGet(t)

\* single-threaded use of one instance
SpecPace == InitPace /\ [][NextPace]_vars

\* the three threads of scrape_multiple_sources
SpecWorkers == InitWorkers /\ [][NextPace]_vars

----------------------------------------------------------------------------
(* EnhancedScraper._extract_contact_info on the phone and email fields.    *)
(* A text is a sequence of pieces kept apart by " | ": a phone number, an  *)
(* email address or plain words, with or without a label and a colon in    *)
(* front.  What re.findall gives for a pattern is read off the pieces: a   *)
(* pattern without a label finds every piece of its shape, a pattern with  *)
(* a label finds the pieces under that label.  No piece of the pool        *)
(* matches an address or website pattern, so contact_info has at most the  *)
(* keys 'phone' and 'email'.                                               *)

\* format: which of the first four phone patterns the number has the shape
\* of, 0 for none
BareEmail ==
    [label |-> "", kind |-> "email", format |-> 0,
     value |-> <<"i","n","f","o","@","a","c","m","e",".","p","k">>]
LabeledEmail ==
    [label |-> "Email", kind |-> "email", format |-> 0,
     value |-> <<"s","a","l","e","s","@","z","e","d",".","p","k">>]
BarePhone ==
    [label |-> "", kind |-> "phone", format |-> 1,
     value |-> <<"+","9","2"," ","2","1"," ","3","4","5"," ","6","7","8","9">>]
LabeledPhone ==
    [label |-> "Phone", kind |-> "phone", format |-> 3,
     value |-> <<"0","2","1","-","1","1","1","-","2","2","2","2">>]
ShortTel ==
    [label |-> "Tel", kind |-> "phone", format |-> 0,
     value |-> <<"1","2","3","4","5">>]
PlainTel ==
    [label |-> "Tel", kind |-> "phone", format |-> 0,
     value |-> <<"1","2","3","4","5","6","7","8","9","0">>]
Words ==
    [label |-> "", kind |-> "text", format |-> 0,
     value |-> <<"o","p","e","n"," ","d","a","i","l","y">>]

Pieces == {BareEmail, LabeledEmail, BarePhone, LabeledPhone, ShortTel, PlainTel, Words}

\* the texts handed to _extract_contact_info
ContactTexts == SeqsUpTo(Pieces, MaxLen)

\* phone_patterns and email_patterns, in the order of the two lists
phone_patterns ==
    << [label |-> "", format |-> 1], [label |-> "", format |-> 2],
       [label |-> "", format |-> 3], [label |-> "", format |-> 4],
       [label |-> "Tel", format |-> 0], [label |-> "Phone", format |-> 0],
       [label |-> "Call", format |-> 0], [label |-> "Contact", format |-> 0] >>

email_patterns ==
    << [label |-> "", format |-> 0], [label |-> "Email", format |-> 0],
       [label |-> "Mail", format |-> 0], [label |-> "Contact", format |-> 0] >>

\* whether re.findall(pattern, text, re.IGNORECASE) finds the piece; with
\* IGNORECASE the pattern Mail[:\s]* also matches inside "Email:"
PatternFinds(field, pattern, piece) ==
    /\ piece.kind = field
    /\ IF pattern.label = ""
       THEN field = "email" \/ piece.format = pattern.format
       ELSE \/ piece.label = pattern.label
            \/ pattern.label = "Mail" /\ piece.label = "Email"

\* matches = re.findall(...): the values found, in the order of the text
FindAll(field, pattern, text) ==
    LET found == SelectSeq(text, LAMBDA piece : PatternFinds(field, pattern, piece))
    IN  [i \in 1..Len(found) |-> found[i].value]

\* '.' in email.split('@')[1]
DotAfterAt(email) ==
    \E i \in 1..Len(email) :
        /\ email[i] = "@"
        /\ \A k \in 1..(i - 1) : email[k] # "@"
        /\ \E j \in (i + 1)..Len(email) :
              /\ email[j] = "."
              /\ \A k \in (i + 1)..j : email[k] # "@"

\* len(phone) >= 10, and '@' in email and '.' in email.split('@')[1]
PassesCheck(field, v) ==
    IF field = "phone" THEN Len(v) >= 10
    ELSE Contains(v, "@") /\ DotAfterAt(v)

\* for pattern in patterns: of the first pattern whose matches[0] passes the
\* check, that matches[0]; None when the loop ends without a break
RECURSIVE PatternLoop(_, _, _, _)
PatternLoop(field, patterns, i, text) ==
    IF i > Len(patterns) THEN None
    ELSE LET matches == FindAll(field, patterns[i], text)
         IN  IF matches # <<>> /\ PassesCheck(field, Strip(matches[1]))
             THEN Strip(matches[1])
             ELSE PatternLoop(field, patterns, i + 1, text)

\* contact_info, with None for a key that is not set
_extract_contact_info(text) ==
    [phone |-> PatternLoop("phone", phone_patterns, 1, text),
     email |-> PatternLoop("email", email_patterns, 1, text)]

InitContact ==
    /\ CollectorInit
    /\ PaceIdle
    /\ GenIdle
    /\ EnhancedIdle
    /\ ScrapeIdle
    /\ DataIdle
    /\ use_library = TRUE
    /\ fn_dns = <<>> /\ fn_out = <<>>
    /\ fn_pc = "contact" /\ fn_in \in ContactTexts

ContactCall ==
    /\ fn_pc = "contact"
    /\ fn_out' = _extract_contact_info(fn_in)
    /\ fn_pc' = "contact_done"
    /\ UNCHANGED <<collector_vars, use_library, fn_in, fn_dns, gen_vars, req_vars,
                   scrape_vars, dm_vars, hist_vars, pace_vars>>

NextContact == ContactCall

SpecContact == InitContact /\ [][NextContact]_vars

----------------------------------------------------------------------------
(* generate_businesses calls with a model none of whose responses can be   *)
(* parsed: text without a JSON object, or with braces around text that is  *)
(* no JSON.                                                                *)

UnparseableResponses == {r \in GeminiResponses : r.kind \in {"no_json", "bad_json"}}

\* generate_businesses calls per behaviour
MaxUnparseableCalls == 2

InitUnparseable ==
    /\ CollectorInit
    /\ PaceIdle
    /\ EnhancedIdle
    /\ ScrapeIdle
    /\ use_library = TRUE
    /\ fn_pc = "off" /\ fn_in = <<>> /\ fn_dns = <<>> /\ fn_out = <<>>
    /\ session_files = <<>> /\ history_files = <<>> /\ campaign_records = <<>>
    /\ dm_return = "none_yet" /\ saved_log = <<>>
    /\ lead_history \in HistoryPool \cup {LongerNameHistory}
    /\ returned_log = <<>>
    /\ fallback_mode = FALSE
    /\ existing_names = _load_existing_leads(lead_history).names
    /\ existing_emails = _load_existing_leads(lead_history).emails
    /\ gen_pc = "idle"
    /\ gen_args = [category |-> <<>>, city |-> <<>>, target_count |-> 0]
    /\ gen_unique = <<>> /\ attempts = 0
    /\ gen_result = <<>> /\ gen_calls = 0

UnparseableStart == StartCall(MaxUnparseableCalls, GenCategories, 1..MaxGenTarget)

UnparseableAttempt == AttemptWith(UnparseableResponses)

NextUnparseable ==
    \/ UnparseableStart
    \/ UnparseableAttempt
    \/ GenerateReturn

SpecUnparseable == InitUnparseable /\ [][NextUnparseable]_vars

----------------------------------------------------------------------------
(* Properties *)

\* no two elements of a list of dicts share a normalized name or a normalized email
NoSharedKey(businesses) ==
    \A i, j \in 1..Len(businesses) :
        i < j => /\ NameKey(businesses[i]) # NameKey(businesses[j])
                 /\ EmailKey(businesses[i]) # EmailKey(businesses[j])

\* C1: the list _remove_duplicates returns holds no two dicts with the same
\* normalized name and no two with the same normalized email, a missing or
\* empty email counting as the key ''.
C1_DedupNoSharedKey == fn_pc = "dedup_returned" => NoSharedKey(fn_out)

\* C1 witness: a call that dropped a dict because its empty or missing email
\* was already seen, although its name was new
C1_Witness ==
    /\ fn_pc = "dedup_returned"
    /\ Len(fn_out) < Len(fn_in)
    /\ \E i, j \in 1..Len(fn_in) :
          /\ i < j
          /\ NameKey(fn_in[i]) # NameKey(fn_in[j])
          /\ EmailKey(fn_in[i]) = <<>> /\ EmailKey(fn_in[j]) = <<>>
          /\ "email" \notin DOMAIN fn_in[j]
          /\ \A k \in 1..Len(fn_out) : NameKey(fn_out[k]) # NameKey(fn_in[j])

\* C11: _remove_duplicates is idempotent: applied to the list it returned, it
\* returns that list unchanged, the same dicts in the same order.
C11_DedupIdempotent == fn_pc = "dedup_again" => fn_out = fn_in

\* C11 witness: a second application to a list of several dicts, one of them
\* without an email
C11_Witness ==
    /\ fn_pc = "dedup_again"
    /\ Len(fn_in) >= 2
    /\ \E i \in 1..Len(fn_in) : EmailKey(fn_in[i]) = <<>>
    /\ fn_out = fn_in

\* C12 (as claimed): the deduplication of FreeBusinessCollector and of
\* EnhancedScraper keeps an object only if its normalized name was not seen
\* on an earlier kept object, so no two objects of the list it returns share
\* a normalized name, also when their phone numbers differ.
C12_VariantNoSharedName ==
    fn_pc \in {"free_returned", "enhanced_returned"} =>
        \A i, j \in 1..Len(fn_out) :
            i < j => Strip(Lower(fn_out[i].name)) # Strip(Lower(fn_out[j].name))

\* C2 (as claimed): the list one collect_businesses call returns holds no two
\* dicts with the same normalized name and no two with the same normalized
\* email, also after the enhancement step overwrote emails.
C2_ResultNoSharedKey == pc = "done" => NoSharedKey(DerefAll(result))

\* C3: the list collect_businesses(category, city, N) returns has at most N
\* elements, on the normal path and on the exception path.
C3_ResultAtMostTarget == pc = "done" => Len(result) <= target_count

\* C3 witness: a normal return that cut a longer list of valid businesses
C3_Witness ==
    /\ pc = "done" /\ path = "normal"
    /\ Len(valid_businesses) > target_count
    /\ Len(result) = target_count

DatasetRefs(cat, c, n) ==
    Take([i \in 1..Len(verified_businesses[cat][c]) |-> DatasetRef(cat, c, i)], n)

\* C5 (as claimed): when the scrapers return nothing and no fetch succeeds,
\* collect_businesses(category, city, N) returns, for every N >= 1 and every
\* key of the dataset, exactly the first min(N, k) dicts of the dataset list,
\* in order, each with verified = True.
C5_FallbackExact ==
    (/\ pc = "done" /\ path = "normal"
     /\ scraped = <<>>
     /\ HasKey(verified_businesses, category, city))
    => /\ result = DatasetRefs(category, city, target_count)
       /\ \A i \in 1..Len(result) : Deref(result[i]).verified = TRUE

\* C6 (as claimed): a dataset dict returned because scraping under-delivered
\* carries a source tag other than the dataset's own 'verified_database'.
C6_FallbackTagged ==
    (pc = "done" /\ path = "normal")
    => \A i \in 1..Len(result) :
          result[i].ds => Deref(result[i]).source # "verified_database"

\* the dataset dict as loaded, with the fallback tag
OriginalTagged(ref) ==
    [_load_verified_businesses[ref.cat][ref.city][ref.i] EXCEPT !.source = FallbackTag]

\* C7 (as claimed): when a step raises, the partial results are discarded and
\* the call returns the dataset list of (category, city) cut to target_count,
\* each dict tagged 'verified_database_fallback'; the empty list when the
\* dataset has no such key.
C7_ExceptionReturnsDataset ==
    (pc = "done" /\ path = "exception")
    => IF HasKey(_load_verified_businesses, category, city)
       THEN /\ result = DatasetRefs(category, city, target_count)
            /\ \A i \in 1..Len(result) : Deref(result[i]) = OriginalTagged(result[i])
       ELSE result = <<>>

\* C8 (as claimed): every dict stored in self.verified_businesses keeps the
\* field values it had when the collector was constructed.
C8_DatasetReadOnly == verified_businesses = _load_verified_businesses

\* C9 (as claimed): a record has verified=true only if it comes from the
\* Verified Dataset: no dict created by a scraper and no record that
\* generate_businesses returns, built from a model response or from the
\* built-in fallback name lists, has verified=true.
C9_VerifiedOnlyFromDataset ==
    /\ \A i \in 1..Len(scraped) : ~scraped[i].verified
    /\ gen_pc = "done" => \A i \in 1..Len(gen_result) : ~gen_result[i].verified

\* C10 (as claimed): _validate_business_emails puts a dict in the invalid
\* list exactly when its email is empty or fails the syntax check, whatever
\* the MX lookup answers, with the email_validator package and with the
\* built-in fallback validator.
C10_InvalidIffBadSyntax ==
    fn_pc = "validate_returned"
    => \A i \in 1..Len(fn_in) :
          LET email == Get(fn_in[i], "email", <<>>)
          IN  /\ (i \in Range(fn_out.invalid)) <=> (email = <<>> \/ ~MatchesPattern(email))
              /\ (i \in Range(fn_out.valid)) <=> ~(i \in Range(fn_out.invalid))

\* the outcomes after which _make_request may try again
Retryable(outcome) == outcome.kind = "exception" \/ outcome.code \in {429, 503}

\* C19: one call of _make_request(url) ends, after at most max_retries
\* retries, that is at most max_retries + 1 session.get calls, whatever the
\* outcomes are (200, 429, 503, another status, an exception, in any mix);
\* answers 429/503 and exceptions advance the same counter retries.
C19_BoundedRetries ==
    /\ [](/\ retries <= max_retries
          /\ http_attempts <= max_retries + 1
          /\ http_attempts = Len(outcomes)
          /\ retries = IF req_pc = "attempt" THEN http_attempts ELSE http_attempts - 1
          /\ retries = Cardinality({i \in 1..Len(outcomes) :
                                       i <= retries /\ Retryable(outcomes[i])}))
    /\ <>(req_pc # "attempt")

\* a call that returned None after four attempts, some answered 429 or 503
\* and some ended by an exception
C19_Witness ==
    /\ req_pc = "returned" /\ req_result = "None"
    /\ http_attempts = max_retries + 1
    /\ \E i, j \in 1..Len(outcomes) :
          outcomes[i].kind = "exception" /\ outcomes[j].code \in {429, 503}

\* C20: _make_request never raises; it returns a response only when its
\* last attempt got status 200; it returns None when the retries are used
\* up or when an attempt got a status other than 200, 429 and 503, and that
\* attempt is the last one; scrape_business_directory returns the empty
\* list when _make_request returned None.
C20_NeverRaises ==
    /\ req_pc # "attempt"
       => LET last == outcomes[Len(outcomes)]
          IN  /\ req_result \in {"response", "None"}
              /\ req_result = "response" <=> (last.kind = "status" /\ last.code = 200)
              /\ req_result = "None"
                 <=> \/ Retryable(last) /\ retries = max_retries
                     \/ last.kind = "status" /\ last.code \notin {200, 429, 503}
              /\ \A i \in 1..Len(outcomes) :
                    (outcomes[i].kind = "status" /\ outcomes[i].code \notin {429, 503})
                    => i = Len(outcomes)
    /\ (req_pc = "directory_returned" /\ req_result = "None") => dir_result = <<>>

\* scrape_business_directory returned after a request that was retried and
\* then answered 404
C20_Witness ==
    /\ req_pc = "directory_returned" /\ req_result = "None" /\ dir_result = <<>>
    /\ Len(outcomes) >= 2
    /\ outcomes[Len(outcomes)].kind = "status" /\ outcomes[Len(outcomes)].code = 404

\* a field that holds a non-empty text
Present(x) == x # None /\ x # <<>>

\* C14: the score, in hundredths, is 30 (name of length >= 3) + 25 (email)
\* + 20 (phone) + 15 (website) + 10 (address) + 10 (business_type text
\* inside category text) + 5 (source pakistan_business_directory or
\* yellow_pages_pk), cut to 100; it lies in 0..100, is 100 for a record with
\* name, email, phone, website, address and a trusted source, and 30 for a
\* record with only a name from another source; every record
\* _extract_business_from_element returns has a score of at least 30.
C14_ScoreIsWeightedSum ==
    /\ fn_pc = "scored"
       => LET b == fn_in
              named == Present(b.name) /\ Len(b.name) >= 3
              typed == /\ Present(b.business_type) /\ Present(b.category)
                       /\ IsSubstring(Lower(b.business_type), Lower(b.category))
              trusted == b.source \in {"pakistan_business_directory", "yellow_pages_pk"}
              sum == (IF named THEN 30 ELSE 0) + (IF Present(b.email) THEN 25 ELSE 0)
                     + (IF Present(b.phone) THEN 20 ELSE 0)
                     + (IF Present(b.website) THEN 15 ELSE 0)
                     + (IF Present(b.address) THEN 10 ELSE 0)
                     + (IF typed THEN 10 ELSE 0) + (IF trusted THEN 5 ELSE 0)
          IN  /\ fn_out = IF sum > 100 THEN 100 ELSE sum
              /\ fn_out \in 0..100
              /\ (named /\ Present(b.email) /\ Present(b.phone) /\ Present(b.website)
                    /\ Present(b.address) /\ trusted) => fn_out = 100
              /\ (named /\ ~Present(b.email) /\ ~Present(b.phone) /\ ~Present(b.website)
                    /\ ~Present(b.address) /\ ~typed /\ ~trusted) => fn_out = 30
    /\ (fn_pc = "extracted" /\ fn_out # NoBusiness)
       => /\ fn_out.confidence_score >= 30
          /\ fn_out.confidence_score = _calculate_confidence_score(fn_out)

\* a record with every field and a trusted source whose sum passes 100
C14_Witness ==
    /\ fn_pc = "scored" /\ fn_out = 100
    /\ Present(fn_in.email) /\ Present(fn_in.phone) /\ Present(fn_in.website)
    /\ Present(fn_in.address) /\ fn_in.source = "yellow_pages_pk"
    /\ fn_in.business_type = S_tech /\ fn_in.category = Technology

\* the lists of the futures, joined in the order given
RECURSIVE ResultsInOrder(_, _)
ResultsInOrder(order, fs) ==
    IF order = <<>> THEN <<>>
    ELSE fs[Head(order)].result \o ResultsInOrder(Tail(order), fs)

\* C13: in scrape_multiple_sources a source whose task fails (fetch
\* failure, parse failure, exception) contributes no record and discards
\* none of the others: the merged list handed to _remove_duplicates holds
\* the records of every source that completed, in completion order, for
\* every set of failing sources and every completion order.
C13_FailureIsolated ==
    /\ \A source_name \in SourceNames :
          futures[source_name].failed => futures[source_name].result = <<>>
    /\ all_scraped = ResultsInOrder(completed, futures)
    /\ scrape_pc = "returned"
       => /\ Range(completed) = SourceNames
          /\ \A source_name \in SourceNames :
                \A i \in 1..Len(futures[source_name].result) :
                   \E j \in 1..Len(all_scraped) :
                      all_scraped[j] = futures[source_name].result[i]

\* a call in which the first source collected gave records, the second
\* failed and the third gave records
C13_Witness ==
    /\ scrape_pc = "returned"
    /\ futures[completed[1]].result # <<>>
    /\ futures[completed[2]].failed
    /\ futures[completed[3]].result # <<>>
    /\ Len(all_scraped) >= 3

\* the characters that end a token
TokenSeparators == Whitespace \cup {"-", "."}

\* the tokens of a name, stopwords removed: the maximal runs of characters
\* that are no separators
Tokens(s) ==
    {SubSeq(s, i, j) : <<i, j>> \in
        {p \in (1..Len(s)) \X (1..Len(s)) :
            /\ p[1] <= p[2]
            /\ \A k \in p[1]..p[2] : s[k] \notin TokenSeparators
            /\ (p[1] = 1 \/ s[p[1] - 1] \in TokenSeparators)
            /\ (p[2] = Len(s) \/ s[p[2] + 1] \in TokenSeparators)}}
    \ common_words

C18_ShortfallExact ==
    (pc = "dedup" /\ HasKey(verified_businesses, category, city))
    => ((\E i \in 1..Len(all_businesses) : all_businesses[i].ds)
        <=> 2 * Len(scraped) < target_count)

\* the rows of a saved list: per dict, the values of the keys of its first dict
RowsOf(data) ==
    [i \in 1..Len(data) |->
        [j \in 1..Len(data[1]) |-> DictGet(data[i], data[1][j][1], "")]]

\* the rows of every list a successful save of the type was given, in call order
RECURSIVE SavedRows(_, _)
SavedRows(log, type) ==
    IF log = <<>> THEN <<>>
    ELSE LET e == log[Len(log)]
             before == SavedRows(SubSeq(log, 1, Len(log) - 1), type)
         IN  IF e.op = "save" /\ e.type = type /\ e.ok
             THEN before \o RowsOf(e.data) ELSE before

\* the last call that wrote the session file of the type: 0 if there is none
LastSessionWrite(log, type) ==
    LET writes == {i \in 1..Len(log) :
                      \/ log[i].op = "clear"
                      \/ log[i].op = "save" /\ log[i].type = type /\ log[i].ok}
    IN  IF writes = {} THEN 0 ELSE CHOOSE i \in writes : \A k \in writes : k <= i

\* no save call with a non-empty list has returned False
OnlySuccessfulSaves(log) ==
    \A i \in 1..Len(log) : (log[i].op = "save" /\ ~log[i].ok) => log[i].data = <<>>

\* C17: for each record type, after any series of successful saves of
\* non-empty lists and of clear_session_data calls, the history file holds
\* the rows of every list saved, in call order, under its own header
\* (append-only, never truncated, also by clear_session_data), and the
\* session file holds the list of the most recent save, or no row after a
\* clear; a save of an empty list returns False and changes neither file.
C17_HistoryAppendOnly ==
    /\ \A type \in RecordTypes :
          /\ history_files[type].header = HistoryHeader(type)
          /\ history_files[type].rows = SavedRows(saved_log, type)
          /\ OnlySuccessfulSaves(saved_log)
             => LET last == LastSessionWrite(saved_log, type)
                IN  IF last = 0 \/ saved_log[last].op = "clear"
                    THEN session_files[type] = _create_csv_file(SessionHeader(type))
                    ELSE /\ session_files[type].header = Keys(saved_log[last].data[1])
                         /\ session_files[type].rows = RowsOf(saved_log[last].data)
    /\ (/\ saved_log # <<>>
        /\ saved_log[Len(saved_log)].op = "save"
        /\ saved_log[Len(saved_log)].data = <<>>)
       => dm_return = "False"

\* two lists of leads saved with a clear_session_data between them
C17_Witness ==
    /\ Len(saved_log) = 3
    /\ saved_log[1].op = "save" /\ saved_log[1].type = "leads" /\ saved_log[1].ok
    /\ saved_log[2].op = "clear"
    /\ saved_log[3].op = "save" /\ saved_log[3].type = "leads" /\ saved_log[3].ok
    /\ Len(saved_log[3].data) = 2
    /\ Len(history_files["leads"].rows) = 3
    /\ Len(session_files["leads"].rows) = 2

\* every record returned so far, the one of a call that has just returned
\* included
AllReturned == returned_log \o (IF gen_pc = "done" THEN gen_result ELSE <<>>)

\* the rows the first generator loaded
LoadedHistory == SubSeq(lead_history, 1, Len(lead_history) - Len(returned_log))

\* C15: over any series of generate_businesses calls on one generator (AI
\* path, fallback path, exception path) and on generators built after the
\* returned records were appended to the lead history, no returned record
\* has a normalized name or a normalized email equal to one of the loaded
\* history, of an earlier call or of an earlier record of the same call.
C15_NeverReissued ==
    LET all == AllReturned
        name(b) == Strip(Lower(b.name))
        email(b) == Strip(Lower(b.email))
    IN  /\ \A i, j \in 1..Len(all) :
              i < j => name(all[i]) # name(all[j]) /\ email(all[i]) # email(all[j])
        /\ \A i \in 1..Len(all), k \in 1..Len(LoadedHistory) :
              /\ name(all[i]) # name(LoadedHistory[k])
              /\ email(all[i]) # email(LoadedHistory[k])

\* a second call, on a generator built anew with a model, was answered
\* with names and emails that the first call had returned and returned
\* another record
C15_Witness ==
    /\ gen_pc = "done" /\ gen_calls = 2 /\ ~fallback_mode
    /\ returned_log # <<>> /\ gen_result # <<>>
    /\ \E i \in 1..Len(returned_log) :
          returned_log[i].source = "realistic_fallback_data"
    /\ gen_result[1].source # "realistic_fallback_data"

\* C21: in one _make_request call the first session.get goes without a
\* proxy; every later one, when proxy_list is not empty, goes through
\* proxy_list[current_proxy_index] and moves current_proxy_index on by one
\* modulo len(proxy_list); with an empty proxy_list every one goes direct
\* and the index stays.
C21_ProxyRotation ==
    [][http_attempts' = http_attempts + 1 =>
          LET used == proxies_used'[Len(proxies_used')]
          IN  /\ Len(proxies_used') = http_attempts'
              /\ IF http_attempts = 0 \/ proxy_list = <<>>
                 THEN /\ used = "None"
                      /\ current_proxy_index' = current_proxy_index
                 ELSE /\ used = proxy_list[current_proxy_index + 1]
                      /\ current_proxy_index' =
                             (current_proxy_index + 1) % Len(proxy_list)]_vars

\* a call with three retries through a pool of two: the rotation wraps
C21_Witness ==
    /\ Len(proxies_used) = max_retries + 1
    /\ proxy_list # <<>>
    /\ proxies_used[1] = "None"
    /\ proxies_used[2] # proxies_used[3]
    /\ proxies_used[2] = proxies_used[4]

\* the statements of a thread between the end of its _rate_limit and the
\* end of the session.get that follows
AfterRateLimit == {"proxy", "load", "store", "get"}

\* C22: when one thread uses an instance of BusinessCollector,
\* FreeBusinessCollector or EnhancedScraper, every session.get comes after a
\* _rate_limit of its own, and two values written one after the other to
\* last_request_time are at least min_delay seconds apart.
C22_PacedSingleThread ==
    /\ \A t \in DOMAIN w_pc :
          w_local[t].limits = w_local[t].gets
                                  + (IF w_pc[t] \in AfterRateLimit THEN 1 ELSE 0)
    /\ \A i \in 1..(Len(request_times) - 1) :
          request_times[i + 1] - request_times[i] >= MinDelayOf(fetcher)

\* three requests of which the second had to wait for the first
C22_Witness ==
    /\ DOMAIN w_pc = {"main"}
    /\ w_local["main"].gets = MaxFetches
    /\ Len(request_times) = MaxFetches
    /\ request_times[2] - request_times[1] = MinDelayOf(fetcher)

\* C23: with the three threads of scrape_multiple_sources on one
\* EnhancedScraper, no two values written to last_request_time, that is no
\* two request starts, are less than min_delay seconds apart.
C23_PacedUnderInterleaving ==
    \A i, j \in 1..Len(request_times) :
        i < j => request_times[j] - request_times[i] >= min_delay

\* the threads that have picked a proxy and not yet stored the index
InsideGetNextProxy == {t \in DOMAIN w_pc : w_pc[t] \in {"load", "store"}}

\* C24: with those threads, the calls of _get_next_proxy hand out
\* consecutive entries of proxy_list, current_proxy_index has moved on by
\* one per call when no call is under way, and it stays in
\* 0..len(proxy_list)-1.
C24_RotationAtomic ==
    /\ proxy_list # <<>> => current_proxy_index \in 0..(Len(proxy_list) - 1)
    /\ \A i \in 1..(Len(proxy_handed) - 1) :
          proxy_handed[i + 1].index = (proxy_handed[i].index + 1) % Len(proxy_list)
    /\ (proxy_handed # <<>> /\ InsideGetNextProxy = {})
          => current_proxy_index
                 = (proxy_handed[Len(proxy_handed)].index + 1) % Len(proxy_list)

\* the records the step issues: the list a fallback call or the exception
\* handler returns, or the records one pass of the while loop accepted
IssuedByStep ==
    IF gen_pc' = "done" /\ (gen_calls' # gen_calls \/ attempts' # attempts)
    THEN gen_result'
    ELSE IF gen_pc = "loop" /\ gen_pc' = "loop"
    THEN SubSeq(gen_unique', Len(gen_unique) + 1, Len(gen_unique'))
    ELSE <<>>

\* C25: on every path of generate_businesses, no record is issued whose
\* name _names_are_similar judges similar to a name that was in
\* existing_names before the records of the step were issued.
C25_FuzzyCheckedOnEveryPath ==
    [][\A i \in 1..Len(IssuedByStep) :
          \A existing_name \in existing_names :
              ~_names_are_similar(Strip(Lower(IssuedByStep[i].name)),
                                  existing_name)]_vars

\* the same for the records accepted from model responses only
C25_HoldsOnModelPath ==
    [][(gen_pc = "loop" /\ gen_pc' = "loop") =>
          \A i \in 1..Len(IssuedByStep) :
              \A existing_name \in existing_names :
                  ~_names_are_similar(Strip(Lower(IssuedByStep[i].name)),
                                      existing_name)]_vars

\* the values of the pieces of a text that are of the field and, when a
\* label is given, under that label
ValuesOf(text, field, label) ==
    {text[i].value : i \in {k \in 1..Len(text) :
                               /\ text[k].kind = field
                               /\ label = "any" \/ text[k].label = label}}

\* C26: when a text has an email without a label and another email under
\* "Email:", both passing the check, _extract_contact_info returns the one
\* under the label; likewise for a phone number and "Phone:".
C26_LabeledPreferred ==
    fn_pc = "contact_done" =>
        /\ \A bare \in ValuesOf(fn_in, "email", ""),
              labeled \in ValuesOf(fn_in, "email", "Email") :
              (bare # labeled /\ PassesCheck("email", bare)
                   /\ PassesCheck("email", labeled))
                  => fn_out.email = labeled
        /\ \A bare \in ValuesOf(fn_in, "phone", ""),
              labeled \in ValuesOf(fn_in, "phone", "Phone") :
              (bare # labeled /\ PassesCheck("phone", bare)
                   /\ PassesCheck("phone", labeled))
                  => fn_out.phone = labeled

\* what the code does instead: the value returned is matches[0] of the
\* first pattern, in the order of the list, whose matches[0] passes
C26_FirstPatternInListOrder ==
    fn_pc = "contact_done" =>
        /\ ValuesOf(fn_in, "email", "any") # {}
              => fn_out.email = FindAll("email", email_patterns[1], fn_in)[1]
        /\ fn_out.phone # None => fn_out.phone \in ValuesOf(fn_in, "phone", "any")

\* C27: a generate_businesses call with a model whose responses are all
\* unparseable, made while the built-in list has names not yet issued,
\* returns a non-empty list of fallback records, and every name the call
\* added to existing_names is the name of a record it returned.
C27_FallbackDelivered ==
    (gen_pc = "done" /\ gen_calls = 1) =>
        /\ gen_result # <<>>
        /\ \A i \in 1..Len(gen_result) :
              gen_result[i].source = "realistic_fallback_data"
        /\ existing_names \subseteq
               _load_existing_leads(lead_history).names
                   \cup {Lower(gen_result[i].name) : i \in 1..Len(gen_result)}

\* C28: generate_businesses(category, city, n) terminates: with a model it
\* makes at most 3*n generation requests whatever the responses are, a call
\* that has entered the loop returns, and what any call returns has at
\* most n records.
C28_CallTerminatesWithinBounds ==
    /\ [](/\ attempts <= 3 * gen_args.target_count
          /\ Len(gen_unique) <= gen_args.target_count
          /\ gen_pc = "done" => Len(gen_result) <= gen_args.target_count)
    /\ (gen_pc = "loop") ~> (gen_pc = "done")

\* a call with a model that used all 3*n requests and came back short
C28_Witness ==
    /\ gen_pc = "done"
    /\ ~fallback_mode
    /\ gen_args.target_count = MaxGenTarget
    /\ attempts = 3 * MaxGenTarget
    /\ Len(gen_result) < MaxGenTarget

\* v and w, merged in some way that keeps the order within each, give e
RECURSIVE Interleaves(_, _, _)
Interleaves(v, w, e) ==
    IF e = <<>> THEN v = <<>> /\ w = <<>>
    ELSE \/ v # <<>> /\ Head(v) = Head(e) /\ Interleaves(Tail(v), w, Tail(e))
         \/ w # <<>> /\ Head(w) = Head(e) /\ Interleaves(v, Tail(w), Tail(e))

\* C29: when _validate_business_emails has gone through its input, the
\* valid list and the invalid list together hold every input record once,
\* each list in input order and no record in both; and every record that
\* collect_businesses returns on the normal path has a non-empty email.
C29_ValidationPartitions ==
    /\ (pc = "validate" \/ (pc = "done" /\ path = "normal")) =>
          LET done == Len(valid_businesses) + Len(invalid_businesses)
          IN  /\ done <= Len(enhanced_businesses)
              /\ Interleaves(valid_businesses, invalid_businesses,
                             Take(enhanced_businesses, done))
              /\ Range(valid_businesses) \cap Range(invalid_businesses) = {}
    /\ (pc = "done" /\ path = "normal") =>
          /\ Len(valid_businesses) + Len(invalid_businesses) = Len(enhanced_businesses)
          /\ \A i \in 1..Len(result) : Get(Deref(result[i]), "email", <<>>) # <<>>

\* a normal return after a record without a usable email was set aside
\* ahead of one that was kept
C29_Witness ==
    /\ pc = "done" /\ path = "normal"
    /\ invalid_businesses # <<>>
    /\ result # <<>>
    /\ \E i, j \in 1..Len(enhanced_businesses) :
          /\ i < j
          /\ enhanced_businesses[i] \in Range(invalid_businesses)
          /\ enhanced_businesses[j] \in Range(valid_businesses)

\* the scraped records of the current call that carry the email
\* _generate_email_from_name makes of their name
WithSynthesizedEmail ==
    {ref \in Range(enhanced_businesses) :
        /\ ~ref.ds
        /\ Len(Deref(ref).name) >= 3
        /\ Deref(ref).email = _generate_email_from_name(Deref(ref).name)}

\* C30 (as claimed): the email _generate_email_from_name makes of a name of
\* three or more characters is an address local-part@domain, so that a
\* scraped record carrying it is put in the valid list by
\* _validate_business_emails of the same collect_businesses call.
C30_SynthesizedEmailValid ==
    (pc = "done" /\ path = "normal") =>
        \A ref \in WithSynthesizedEmail :
            /\ MatchesPattern(Deref(ref).email)
            /\ ref \in Range(valid_businesses)

====
